---- MODULE Spec2Model ----
(***************************************************************************)
(* A model of the JMAP Core wire codec of foxcpp/go-jmap: the Invocation   *)
(* triplet codec, the Request/Response envelope with its method registry,  *)
(* and the bounded integer types.                                          *)
(*                                                                         *)
(* JSON text is a sequence of lexemes (tokens).  A token is a record       *)
(* [k, v, n]: k is the lexeme kind ("{", "}", "[", "]", ",", ":", "str",   *)
(* "num", "null", "ws"), v the payload of a string, n that of a number.    *)
(* The first token of a text plays the role of its first byte.             *)
(***************************************************************************)
EXTENDS Integers, Sequences, FiniteSets, TLC

VARIABLES
    fn,        \* pure codec call under examination: the function applied
    arg,       \* ... its input
    ret,       \* ... its outcome, [state |-> "pending"] until it returned
    registry,  \* caller-supplied map: method name -> argument decoder
    pc,        \* per goroutine: position inside Marshal / Unmarshal
    kind,      \* per goroutine: "Request" or "Response"
    src,       \* per goroutine: the value handed to MarshalJSON
    data,      \* per goroutine: the body text handed to Unmarshal
    recv,      \* per goroutine: the receiver r of Unmarshal
    old,       \* per goroutine: the receiver as it was when Unmarshal was called
    raw,       \* per goroutine: the local rawRequest / rawResponse
    idx,       \* per goroutine: position of the range loop over the raw calls
    err,       \* per goroutine: the error returned ("pending" before return)
    body,      \* per goroutine: how the body text in data came about
    Session,   \* Client.Session: the cached session, NoSession when nil
    SessionLck, \* Client.SessionLck: the readers and the writer holding it
    goroutine, \* per goroutine of the client: its call and the position in it
    sent,      \* the API requests that RawSend has transmitted
    fetched,   \* the number of session objects fetched so far
    crashed,   \* a fatal error has ended the process
    batch      \* the Batch under construction and the last value it returned

pureVars == <<fn, arg, ret>>
wireVars == <<registry, pc, kind, src, data, recv, old, raw, idx, err, body>>
clientVars == <<Session, SessionLck, goroutine, sent, fetched, crashed, batch>>
vars == <<pureVars, wireVars, clientVars>>

-----------------------------------------------------------------------------
(* JSON lexemes *)

\* a number literal: sign, decimal digits, and whether a fraction follows
Lit(neg, digits) == [neg |-> neg, digits |-> digits, frac |-> FALSE]
\* the payload of a token that is no number
NoLit == Lit(FALSE, <<>>)

Tok(k, v) == [k |-> k, v |-> v, n |-> NoLit]
LBrace == Tok("{", "")
RBrace == Tok("}", "")
LBracket == Tok("[", "")
RBracket == Tok("]", "")
Comma == Tok(",", "")
Colon == Tok(":", "")
Null == Tok("null", "")
Ws == Tok("ws", "")
Str(s) == Tok("str", s)
Num(d) == [k |-> "num", v |-> "", n |-> d]
\* the literal 1
One == Num(Lit(FALSE, <<1>>))

Scalars == {"str", "num", "null"}

(* Error values *)
Nil == "nil"
ErrNeed3 == "jmap: malformed Invocation object, need exactly 3 elements"
ErrArgsObject == "jmap: malformed Invocation object, arguments must be object"
ErrSyntax == "json: SyntaxError"
ErrType == "json: UnmarshalTypeError"
ErrMarshaler == "json: MarshalerError"
Panic == "panic: index out of range"

\* the value v under the name that F gives it
With(v, F(_)) == F(v)

-----------------------------------------------------------------------------
(* encoding/json's scanner over a token text, as used by json.Unmarshal     *)
(* (checkValid) and by the encoder on a RawMessage (compact).               *)

RECURSIVE SkipWs(_, _)
\* first position >= i that holds no whitespace (Len(t)+1 when none)
SkipWs(t, i) ==
    IF i <= Len(t) /\ t[i].k = "ws" THEN SkipWs(t, i + 1) ELSE i

RECURSIVE ValueEnd(_, _)
RECURSIVE ElemsEnd(_, _)
RECURSIVE MembersEnd(_, _)
\* position of the last token of the value that starts at i; 0 when malformed
ValueEnd(t, i) ==
    IF i > Len(t) THEN 0
    ELSE IF t[i].k \in Scalars THEN i
    ELSE IF t[i].k = "[" THEN
        With(SkipWs(t, i + 1), LAMBDA j :
            IF j > Len(t) THEN 0
            ELSE IF t[j].k = "]" THEN j
            ELSE ElemsEnd(t, j))
    ELSE IF t[i].k = "{" THEN
        With(SkipWs(t, i + 1), LAMBDA j :
            IF j > Len(t) THEN 0
            ELSE IF t[j].k = "}" THEN j
            ELSE MembersEnd(t, j))
    ELSE 0

\* i is where an array element starts; position of the closing "]" or 0
ElemsEnd(t, i) ==
    With(ValueEnd(t, i), LAMBDA e :
        IF e = 0 THEN 0
        ELSE With(SkipWs(t, e + 1), LAMBDA j :
                 IF j > Len(t) THEN 0
                 ELSE IF t[j].k = "]" THEN j
                 ELSE IF t[j].k = "," THEN ElemsEnd(t, SkipWs(t, j + 1))
                 ELSE 0))

\* i is where an object key starts; position of the closing "}" or 0
MembersEnd(t, i) ==
    IF i > Len(t) \/ t[i].k # "str" THEN 0
    ELSE With(SkipWs(t, i + 1), LAMBDA c :
        IF c > Len(t) \/ t[c].k # ":" THEN 0
        ELSE With(ValueEnd(t, SkipWs(t, c + 1)), LAMBDA e :
            IF e = 0 THEN 0
            ELSE With(SkipWs(t, e + 1), LAMBDA j :
                     IF j > Len(t) THEN 0
                     ELSE IF t[j].k = "}" THEN j
                     ELSE IF t[j].k = "," THEN MembersEnd(t, SkipWs(t, j + 1))
                     ELSE 0)))

\* checkValid: exactly one value, surrounded by optional whitespace
Valid(t) ==
    With(ValueEnd(t, SkipWs(t, 1)), LAMBDA e :
        e # 0 /\ SkipWs(t, e + 1) = Len(t) + 1)

\* the value of a valid text, without the surrounding whitespace
Trim(t) ==
    With(SkipWs(t, 1), LAMBDA s : SubSeq(t, s, ValueEnd(t, s)))

RECURSIVE ElemSpans(_, _)
\* the elements of a valid array, i being where its first element starts
ElemSpans(t, i) ==
    With(ValueEnd(t, i), LAMBDA e :
        IF t[SkipWs(t, e + 1)].k = ","
        THEN <<SubSeq(t, i, e)>>
             \o ElemSpans(t, SkipWs(t, SkipWs(t, e + 1) + 1))
        ELSE <<SubSeq(t, i, e)>>)

\* the raw elements of a valid text whose value is an array
ArrayElems(t) ==
    With(SkipWs(t, 2), LAMBDA j :
        IF t[j].k = "]" THEN <<>> ELSE ElemSpans(t, j))

RECURSIVE MemberSpans(_, _)
\* the members [key, val] of a valid object, i being where its first key starts
MemberSpans(t, i) ==
    With(SkipWs(t, SkipWs(t, i + 1) + 1), LAMBDA s :
        With(ValueEnd(t, s), LAMBDA e :
            IF t[SkipWs(t, e + 1)].k = ","
            THEN <<[key |-> t[i].v, val |-> SubSeq(t, s, e)]>>
                 \o MemberSpans(t, SkipWs(t, SkipWs(t, e + 1) + 1))
            ELSE <<[key |-> t[i].v, val |-> SubSeq(t, s, e)]>>))

\* the members of a valid text whose value is an object, in input order
ObjectMembers(t) ==
    With(SkipWs(t, 2), LAMBDA j :
        IF t[j].k = "}" THEN <<>> ELSE MemberSpans(t, j))

\* compact: the text without insignificant whitespace
Compact(t) == SelectSeq(t, LAMBDA x : x.k # "ws")

RECURSIVE Flatten(_)
\* concatenation of a sequence of texts
Flatten(ts) == IF ts = <<>> THEN <<>> ELSE Head(ts) \o Flatten(Tail(ts))

RECURSIVE Join(_)
\* the texts separated by commas
Join(ts) ==
    IF ts = <<>> THEN <<>>
    ELSE IF Len(ts) = 1 THEN ts[1]
    ELSE ts[1] \o <<Comma>> \o Join(Tail(ts))

\* a JSON array of the given element texts
ArrayText(ts) == <<LBracket>> \o Join(ts) \o <<RBracket>>

\* a JSON object of the given member texts
ObjectText(ms) == <<LBrace>> \o Join(ms) \o <<RBrace>>

\* one object member  "key": value
Member(key, val) == <<Str(key), Colon>> \o val

-----------------------------------------------------------------------------
(* json.Unmarshal into the Go types the codec uses *)

\* json.Unmarshal(data, &s) for a string s holding cur
UnmarshalString(t, cur) ==
    IF ~Valid(t) THEN [err |-> ErrSyntax, val |-> cur]
    ELSE With(Trim(t)[1], LAMBDA first :
             IF first.k = "str" THEN [err |-> Nil, val |-> first.v]
             ELSE IF first.k = "null" THEN [err |-> Nil, val |-> cur]
             ELSE [err |-> ErrType, val |-> cur])

\* json.Unmarshal(data, &triplet) for triplet []json.RawMessage
UnmarshalRawSlice(t) ==
    IF ~Valid(t) THEN [err |-> ErrSyntax, val |-> <<>>]
    ELSE With(Trim(t), LAMBDA v :
             IF v[1].k = "[" THEN [err |-> Nil, val |-> ArrayElems(v)]
             ELSE IF v[1].k = "null" THEN [err |-> Nil, val |-> <<>>]
             ELSE [err |-> ErrType, val |-> <<>>])

-----------------------------------------------------------------------------
(* The Invocation triplet codec *)

\* rawInvocation{}
ZeroRawInvocation == [Name |-> "", CallID |-> "", Args |-> <<>>]

\* the triplet written with the call-id in front and the name at the end
MarshalTriplet_CallIdFirst(name, args, callId) ==
    With(IF args = <<>> THEN <<Null>> ELSE args, LAMBDA a :
        IF ~Valid(a) THEN [err |-> ErrMarshaler, out |-> <<>>]
        ELSE [err |-> Nil,
              out |-> ArrayText(<<<<Str(callId)>>, Compact(a),
                                  <<Str(name)>>>>)])

\* json.Marshal([3]interface{}{name, args, callId}), args a json.RawMessage:
\* the encoder compacts the raw message and fails when it is not valid JSON
MarshalTriplet(name, args, callId) ==
    With(IF args = <<>> THEN <<Null>> ELSE args, LAMBDA a :
        IF ~Valid(a) THEN [err |-> ErrMarshaler, out |-> <<>>]
        ELSE [err |-> Nil,
              out |-> ArrayText(<<<<Str(name)>>, Compact(a),
                                  <<Str(callId)>>>>)])

\* func (i rawInvocation) MarshalJSON() ([]byte, error)
RawInvocationMarshalJSON(i) ==
    IF Len(i.Args) = 0 THEN [err |-> Panic, out |-> <<>>]
    ELSE IF i.Args[1] # LBrace THEN [err |-> ErrArgsObject, out |-> <<>>]
    ELSE MarshalTriplet(i.Name, i.Args, i.CallID)

\* func MarshalInvocation(methodName, callId string, args json.RawMessage)
MarshalInvocation(methodName, callId, args) ==
    IF Len(args) = 0 THEN [err |-> Panic, out |-> <<>>]
    ELSE IF args[1] # LBrace THEN [err |-> ErrArgsObject, out |-> <<>>]
    ELSE MarshalTriplet(methodName, args, callId)

\* rawInvocation.UnmarshalJSON with the size check weakened to "at least 3"
RawInvocationUnmarshalJSON_AtLeast3(i, d) ==
    With(UnmarshalRawSlice(d), LAMBDA triplet :
        IF triplet.err # Nil THEN [err |-> triplet.err, i |-> i]
        ELSE IF Len(triplet.val) < 3 THEN [err |-> ErrNeed3, i |-> i]
        ELSE With(UnmarshalString(triplet.val[1], ""), LAMBDA methodName :
             With(UnmarshalString(triplet.val[3], ""), LAMBDA callId :
             With(triplet.val[2], LAMBDA args :
                 IF methodName.err # Nil THEN [err |-> methodName.err, i |-> i]
                 ELSE IF callId.err # Nil THEN [err |-> callId.err, i |-> i]
                 ELSE IF Len(args) = 0 THEN [err |-> Panic, i |-> i]
                 ELSE IF args[1] # LBrace THEN [err |-> ErrArgsObject, i |-> i]
                 ELSE [err |-> Nil,
                       i |-> [Name |-> methodName.val,
                              CallID |-> callId.val, Args |-> args]]))))

\* func (i *rawInvocation) UnmarshalJSON(data []byte) error
\* returns the error and the receiver as the call leaves it
RawInvocationUnmarshalJSON(i, d) ==
    With(UnmarshalRawSlice(d), LAMBDA triplet :
        IF triplet.err # Nil THEN [err |-> triplet.err, i |-> i]
        ELSE IF Len(triplet.val) # 3 THEN [err |-> ErrNeed3, i |-> i]
        ELSE With(UnmarshalString(triplet.val[1], ""), LAMBDA methodName :
             With(UnmarshalString(triplet.val[3], ""), LAMBDA callId :
             With(triplet.val[2], LAMBDA args :
                 IF methodName.err # Nil THEN [err |-> methodName.err, i |-> i]
                 ELSE IF callId.err # Nil THEN [err |-> callId.err, i |-> i]
                 ELSE IF Len(args) = 0 THEN [err |-> Panic, i |-> i]
                 ELSE IF args[1] # LBrace THEN [err |-> ErrArgsObject, i |-> i]
                 ELSE [err |-> Nil,
                       i |-> [Name |-> methodName.val,
                              CallID |-> callId.val, Args |-> args]]))))

\* func UnmarshalInvocation(data []byte) (methodName, callId, args, err)
UnmarshalInvocation(d) ==
    With(RawInvocationUnmarshalJSON(ZeroRawInvocation, d), LAMBDA r :
        [err |-> r.err, methodName |-> r.i.Name, callId |-> r.i.CallID,
         args |-> r.i.Args])

-----------------------------------------------------------------------------
(* Inputs of the triplet codec *)

\* the largest number of elements of an input array
MaxElems == 4

\* element texts, each with the JSON kind it was written as
Elems ==
    { [kind |-> "string", text |-> <<Str("meth")>>],
      [kind |-> "string", text |-> <<Str("callid")>>],
      [kind |-> "null", text |-> <<Null>>],
      [kind |-> "number", text |-> <<One>>],
      [kind |-> "array", text |-> <<LBracket, One, RBracket>>],
      [kind |-> "object",
       text |-> <<LBrace, Str("arg1"), Colon, Ws, One, RBrace>>] }

\* sequences of at most n elements
ElemSeqs(n) == UNION { [1..k -> Elems] : k \in 0..n }

RECURSIVE JoinSpaced(_)
\* the texts separated by a comma and a space
JoinSpaced(ts) ==
    IF ts = <<>> THEN <<>>
    ELSE IF Len(ts) = 1 THEN ts[1]
    ELSE ts[1] \o <<Comma, Ws>> \o JoinSpaced(Tail(ts))

\* the text of an array of the elements es, spaced like the repository's tests
\* or compact
TripletText(es, spaced) ==
    LET ts == [n \in 1..Len(es) |-> es[n].text] IN
    IF spaced THEN <<LBracket>> \o JoinSpaced(ts) \o <<RBracket>>
    ELSE ArrayText(ts)

\* inputs of the decode path: arrays, and texts that are no array
DecodeInputs ==
    { [shape |-> "array", elems |-> es, text |-> TripletText(es, sp)] :
        es \in ElemSeqs(MaxElems), sp \in BOOLEAN }
    \cup { [shape |-> "null", elems |-> <<>>, text |-> <<Null>>],
           [shape |-> "object", elems |-> <<>>, text |-> <<LBrace, RBrace>>],
           [shape |-> "truncated", elems |-> <<>>,
            text |-> <<LBracket, Str("meth"), Comma>>],
           [shape |-> "empty", elems |-> <<>>, text |-> <<>>] }

\* serialized arguments handed to the encode path, with what they are
ArgBlobs ==
    { [kind |-> e.kind, text |-> e.text] : e \in Elems }
    \cup { [kind |-> "empty", text |-> <<>>],
           [kind |-> "object", text |-> <<LBrace, RBrace>>],
           [kind |-> "truncated", text |-> <<LBrace, Str("arg1")>>] }

\* inputs of the encode path
EncodeInputs ==
    { [Name |-> n, CallID |-> c, kind |-> a.kind, Args |-> a.text] :
        n \in {"method", ""}, c \in {"foo", "callid"}, a \in ArgBlobs }

Pending == [state |-> "pending"]
Returned(r) == [state |-> "returned"] @@ r

\* the state in which no goroutine of the envelope codec exists
\* no client and no batch is in use
NoClient ==
    /\ Session = <<>> /\ SessionLck = <<>> /\ goroutine = <<>>
    /\ sent = <<>> /\ fetched = 0 /\ crashed = FALSE /\ batch = <<>>

NoWire ==
    /\ registry = <<>>
    /\ pc = <<>> /\ kind = <<>> /\ src = <<>> /\ data = <<>>
    /\ recv = <<>> /\ old = <<>> /\ raw = <<>> /\ idx = <<>> /\ err = <<>>
    /\ body = <<>>

InitInvocation ==
    /\ fn \in {"rawInvocation.UnmarshalJSON", "UnmarshalInvocation",
               "rawInvocation.MarshalJSON", "MarshalInvocation"}
    /\ arg \in IF fn \in {"rawInvocation.UnmarshalJSON", "UnmarshalInvocation"}
               THEN DecodeInputs ELSE EncodeInputs
    /\ ret = Pending
    /\ NoWire /\ NoClient

CallRawInvocationUnmarshalJSON ==
    /\ fn = "rawInvocation.UnmarshalJSON" /\ ret = Pending
    /\ ret' = Returned(RawInvocationUnmarshalJSON(ZeroRawInvocation, arg.text))
    /\ UNCHANGED <<fn, arg, wireVars, clientVars>>

CallUnmarshalInvocation ==
    /\ fn = "UnmarshalInvocation" /\ ret = Pending
    /\ ret' = Returned(UnmarshalInvocation(arg.text))
    /\ UNCHANGED <<fn, arg, wireVars, clientVars>>

CallRawInvocationMarshalJSON ==
    /\ fn = "rawInvocation.MarshalJSON" /\ ret = Pending
    /\ ret' = Returned(RawInvocationMarshalJSON(
                  [Name |-> arg.Name, CallID |-> arg.CallID, Args |-> arg.Args]))
    /\ UNCHANGED <<fn, arg, wireVars, clientVars>>

CallMarshalInvocation ==
    /\ fn = "MarshalInvocation" /\ ret = Pending
    /\ ret' = Returned(MarshalInvocation(arg.Name, arg.CallID, arg.Args))
    /\ UNCHANGED <<fn, arg, wireVars, clientVars>>

NextInvocation ==
    \/ CallRawInvocationUnmarshalJSON
    \/ CallUnmarshalInvocation
    \/ CallRawInvocationMarshalJSON
    \/ CallMarshalInvocation

SpecInvocation == InitInvocation /\ [][NextInvocation]_vars

-----------------------------------------------------------------------------
(* Properties of the triplet codec *)

DecodeCalls == {"rawInvocation.UnmarshalJSON", "UnmarshalInvocation"}
EncodeCalls == {"rawInvocation.MarshalJSON", "MarshalInvocation"}

\* what a decode call handed back
DecodedName == IF fn = "UnmarshalInvocation" THEN ret.methodName ELSE ret.i.Name
DecodedCallID == IF fn = "UnmarshalInvocation" THEN ret.callId ELSE ret.i.CallID
DecodedArgs == IF fn = "UnmarshalInvocation" THEN ret.args ELSE ret.i.Args

\* the Go string that an element written as a string (or as null) stands for
ElemString(e) == IF e.kind = "string" THEN e.text[1].v ELSE ""

\* C7: decoding an Invocation succeeds only for a JSON array of exactly 3
\* elements; an array of any other size fails with the "need exactly 3
\* elements" error; on success the name is element 0, the call-id element 2
\* and the arguments are the text of element 1, unchanged.
C7_ExactlyThreeElements ==
    (fn \in DecodeCalls /\ ret.state = "returned") =>
        /\ ret.err = Nil =>
              /\ arg.shape = "array" /\ Len(arg.elems) = 3
              /\ arg.elems[1].kind \in {"string", "null"}
              /\ arg.elems[3].kind \in {"string", "null"}
              /\ DecodedName = ElemString(arg.elems[1])
              /\ DecodedCallID = ElemString(arg.elems[3])
              /\ DecodedArgs = arg.elems[2].text
        /\ (arg.shape = "array" /\ Len(arg.elems) # 3) => ret.err = ErrNeed3

\* a spaced triplet decoded into name "meth", call-id "callid" and the
\* argument text with its inner whitespace
C7_Witness ==
    /\ fn = "rawInvocation.UnmarshalJSON" /\ ret.state = "returned"
    /\ ret.err = Nil
    /\ Ws \in {arg.text[n] : n \in 1..Len(arg.text)}
    /\ ret.i.Name = "meth" /\ ret.i.CallID = "callid"
    /\ ret.i.Args = <<LBrace, Str("arg1"), Colon, Ws, One, RBrace>>

\* the kinds of serialized arguments that are no JSON object
NonObject == {"null", "array", "string", "number", "empty"}

\* C8: on the encode and on the decode path, arguments that are no JSON
\* object (null, an array, a string, a number, an empty serialized value)
\* make the operation return the "arguments must be object" error: it does
\* not crash, and no triplet is emitted or accepted.
C8_NonObjectArgsRejected ==
    ret.state = "returned" =>
        /\ (fn \in EncodeCalls /\ arg.kind \in NonObject) =>
              ret.err = ErrArgsObject /\ ret.out = <<>>
        /\ (/\ fn \in DecodeCalls
            /\ arg.shape = "array" /\ Len(arg.elems) = 3
            /\ arg.elems[1].kind \in {"string", "null"}
            /\ arg.elems[3].kind \in {"string", "null"}
            /\ arg.elems[2].kind \in NonObject) =>
              ret.err = ErrArgsObject /\ DecodedArgs = <<>>

-----------------------------------------------------------------------------
(* 64-bit integers.  A value is [neg, mag]: a sign and a magnitude of three *)
(* limbs <<high, middle, low>> in base 2^21, so that every intermediate     *)
(* result of the limb arithmetic stays a small number.  Zero has neg =      *)
(* FALSE.  int64 holds -2^63 .. 2^63-1 and uint64 holds 0 .. 2^64-1.        *)

Base == 2^21
Zero3 == <<0, 0, 0>>
Int64Of(neg, mag) == [neg |-> neg /\ mag # Zero3, mag |-> mag]

\* -1, 0 or 1 as a < b, a = b or a > b
MagCmp(a, b) ==
    IF a[1] # b[1] THEN (IF a[1] < b[1] THEN -1 ELSE 1)
    ELSE IF a[2] # b[2] THEN (IF a[2] < b[2] THEN -1 ELSE 1)
    ELSE IF a[3] # b[3] THEN (IF a[3] < b[3] THEN -1 ELSE 1)
    ELSE 0

\* m * k for a small k
MagMulSmall(m, k) ==
    LET t0 == m[3] * k
        t1 == m[2] * k + t0 \div Base
        t2 == m[1] * k + t1 \div Base
    IN <<t2, t1 % Base, t0 % Base>>

\* m shifted left by q whole limbs
MagShlLimbs(m, q) ==
    IF q = 0 THEN m
    ELSE IF q = 1 THEN <<m[2], m[3], 0>>
    ELSE <<m[3], 0, 0>>

\* m * 2^n: whole limbs first, the remaining bits by a multiplication
MagShl(m, n) == MagMulSmall(MagShlLimbs(m, n \div 21), 2^(n % 21))

MagInc(m) ==
    IF m[3] + 1 < Base THEN <<m[1], m[2], m[3] + 1>>
    ELSE IF m[2] + 1 < Base THEN <<m[1], m[2] + 1, 0>>
    ELSE <<m[1] + 1, 0, 0>>

MagDec(m) ==
    IF m[3] > 0 THEN <<m[1], m[2], m[3] - 1>>
    ELSE IF m[2] > 0 THEN <<m[1], m[2] - 1, Base - 1>>
    ELSE <<m[1] - 1, Base - 1, Base - 1>>

\* x << n, x + 1, x - 1 and x <= y on signed values (no overflow occurs in
\* the expressions of the source)
GoShl(x, n) == Int64Of(x.neg, MagShl(x.mag, n))
GoAdd1(x) == IF x.neg THEN Int64Of(TRUE, MagDec(x.mag))
             ELSE Int64Of(FALSE, MagInc(x.mag))
GoSub1(x) == IF x.neg \/ x.mag = Zero3 THEN Int64Of(TRUE, MagInc(x.mag))
             ELSE Int64Of(FALSE, MagDec(x.mag))
GoLeq(x, y) ==
    IF x.neg # y.neg THEN x.neg
    ELSE IF x.neg THEN MagCmp(x.mag, y.mag) >= 0
    ELSE MagCmp(x.mag, y.mag) <= 0

\* (-2<<52+1) and (2<<52-1)
IntLowest == GoAdd1(GoShl(Int64Of(TRUE, <<0, 0, 2>>), 52))
IntHighest == GoSub1(GoShl(Int64Of(FALSE, <<0, 0, 2>>), 52))

ErrOutOfRange == "jmap: integer value is not within allowed range"

\* Int.Valid with both comparisons strict
IntValid_Strict(i) == ~GoLeq(i, IntLowest) /\ ~GoLeq(IntHighest, i)

\* func (i Int) Valid() bool
IntValid(i) == GoLeq(IntLowest, i) /\ GoLeq(i, IntHighest)

\* (2<<52 - 1) as an unsigned value
UnsignedIntHighest == GoSub1(GoShl(Int64Of(FALSE, <<0, 0, 2>>), 52))

\* func (i UnsignedInt) Valid() bool
UnsignedIntValid(i) == MagCmp(i.mag, UnsignedIntHighest.mag) <= 0

\* strconv: the decimal digits of a magnitude
MagDivMod10(m) ==
    LET t1 == (m[1] % 10) * Base + m[2]
        t0 == (t1 % 10) * Base + m[3]
    IN [q |-> <<m[1] \div 10, t1 \div 10, t0 \div 10>>, r |-> t0 % 10]

RECURSIVE MagDigits(_)
MagDigits(m) ==
    IF m = Zero3 THEN <<>>
    ELSE LET d == MagDivMod10(m) IN MagDigits(d.q) \o <<d.r>>

\* json.Marshal(int64(i)) / json.Marshal(uint64(i)): the decimal literal
FormatInt(v) ==
    <<Num(Lit(v.neg, IF v.mag = Zero3 THEN <<0>> ELSE MagDigits(v.mag)))>>

\* m * 10 + d
MagMul10Add(m, d) ==
    LET t0 == m[3] * 10 + d
        t1 == m[2] * 10 + t0 \div Base
        t2 == m[1] * 10 + t1 \div Base
    IN <<t2, t1 % Base, t0 % Base>>

RECURSIVE MagParse(_, _, _)
\* the magnitude of the digits ds[k..], acc being that of ds[1..k-1];
\* ok is FALSE once the magnitude no longer fits 64 bits
MagParse(ds, k, acc) ==
    IF k > Len(ds) THEN [ok |-> TRUE, mag |-> acc]
    ELSE LET m == MagMul10Add(acc, ds[k]) IN
         IF m[1] >= 2 * Base THEN [ok |-> FALSE, mag |-> Zero3]
         ELSE MagParse(ds, k + 1, m)

\* strconv.ParseInt(s, 10, 64)
ParseInt(lit) ==
    LET p == MagParse(lit.digits, 1, Zero3) IN
    IF lit.frac \/ ~p.ok THEN [ok |-> FALSE, val |-> Int64Of(FALSE, Zero3)]
    ELSE IF p.mag[1] < Base \/ (lit.neg /\ p.mag = <<Base, 0, 0>>)
         THEN [ok |-> TRUE, val |-> Int64Of(lit.neg, p.mag)]
         ELSE [ok |-> FALSE, val |-> Int64Of(FALSE, Zero3)]

\* strconv.ParseUint(s, 10, 64)
ParseUint(lit) ==
    LET p == MagParse(lit.digits, 1, Zero3) IN
    IF lit.frac \/ lit.neg \/ ~p.ok
    THEN [ok |-> FALSE, val |-> Int64Of(FALSE, Zero3)]
    ELSE [ok |-> TRUE, val |-> Int64Of(FALSE, p.mag)]

\* json.Unmarshal(data, (*int64)(i)), i holding cur
UnmarshalInt64(t, cur) ==
    IF ~Valid(t) THEN [err |-> ErrSyntax, val |-> cur]
    ELSE LET v == Trim(t) IN
         IF v[1].k = "null" THEN [err |-> Nil, val |-> cur]
         ELSE IF v[1].k # "num" THEN [err |-> ErrType, val |-> cur]
         ELSE LET p == ParseInt(v[1].n) IN
              IF p.ok THEN [err |-> Nil, val |-> p.val]
              ELSE [err |-> ErrType, val |-> cur]

\* json.Unmarshal(data, (*uint64)(i)), i holding cur
UnmarshalUint64(t, cur) ==
    IF ~Valid(t) THEN [err |-> ErrSyntax, val |-> cur]
    ELSE LET v == Trim(t) IN
         IF v[1].k = "null" THEN [err |-> Nil, val |-> cur]
         ELSE IF v[1].k # "num" THEN [err |-> ErrType, val |-> cur]
         ELSE LET p == ParseUint(v[1].n) IN
              IF p.ok THEN [err |-> Nil, val |-> p.val]
              ELSE [err |-> ErrType, val |-> cur]

\* func (i Int) MarshalJSON() ([]byte, error)
IntMarshalJSON(i) ==
    IF ~IntValid(i) THEN [err |-> ErrOutOfRange, out |-> <<>>]
    ELSE [err |-> Nil, out |-> FormatInt(i)]

\* func (i UnsignedInt) MarshalJSON() ([]byte, error)
UnsignedIntMarshalJSON(i) ==
    IF ~UnsignedIntValid(i) THEN [err |-> ErrOutOfRange, out |-> <<>>]
    ELSE [err |-> Nil, out |-> FormatInt(i)]

\* Int.UnmarshalJSON without the validation after the parse
IntUnmarshalJSON_NoRevalidation(i, d) ==
    LET r == UnmarshalInt64(d, i) IN [err |-> r.err, i |-> r.val]

\* func (i *Int) UnmarshalJSON(data []byte) error
\* returns the error and the receiver as the call leaves it
IntUnmarshalJSON(i, d) ==
    LET r == UnmarshalInt64(d, i) IN
    IF r.err # Nil THEN [err |-> r.err, i |-> r.val]
    ELSE IF ~IntValid(r.val) THEN [err |-> ErrOutOfRange, i |-> r.val]
    ELSE [err |-> Nil, i |-> r.val]

\* func (i *UnsignedInt) UnmarshalJSON(data []byte) error
UnsignedIntUnmarshalJSON(i, d) ==
    LET r == UnmarshalUint64(d, i) IN
    IF r.err # Nil THEN [err |-> r.err, i |-> r.val]
    ELSE IF ~UnsignedIntValid(r.val) THEN [err |-> ErrOutOfRange, i |-> r.val]
    ELSE [err |-> Nil, i |-> r.val]

-----------------------------------------------------------------------------
(* Inputs and calls of the bounded integer types *)

HighLimbs == {0, 1, 2^9, 2^11 - 1, 2^11, 2^13, Base - 1}
MidLimbs == {0, Base - 1}
LowLimbs == {0, 1, Base - 1}

\* int64 values: around 0, 2<<50, +-(2^53-1), +-2^53, 2<<54, the ends of int64
Int64Values ==
    { Int64Of(n, <<h, m, l>>) :
        n \in BOOLEAN, h \in HighLimbs, m \in MidLimbs, l \in LowLimbs }
    \cup { Int64Of(TRUE, <<Base, 0, 0>>) }

\* uint64 values: the non-negative ones above, and those from 2^63 to 2^64-1
Uint64Values ==
    { Int64Of(FALSE, <<h, m, l>>) :
        h \in HighLimbs \cup {Base, 2 * Base - 1}, m \in MidLimbs,
        l \in LowLimbs }

\* decimal digits of 2^53-1, 2^53, 2^63-1, 2^63, 2^64-1 and 2^64
Dec2p53m1 == <<9,0,0,7,1,9,9,2,5,4,7,4,0,9,9,1>>
Dec2p53 == <<9,0,0,7,1,9,9,2,5,4,7,4,0,9,9,2>>
Dec2p63m1 == <<9,2,2,3,3,7,2,0,3,6,8,5,4,7,7,5,8,0,7>>
Dec2p63 == <<9,2,2,3,3,7,2,0,3,6,8,5,4,7,7,5,8,0,8>>
Dec2p63p1 == <<9,2,2,3,3,7,2,0,3,6,8,5,4,7,7,5,8,0,9>>
Dec2p64m1 == <<1,8,4,4,6,7,4,4,0,7,3,7,0,9,5,5,1,6,1,5>>
Dec2p64 == <<1,8,4,4,6,7,4,4,0,7,3,7,0,9,5,5,1,6,1,6>>
\* the literals of the repository's tests: 2251799813685248 (2<<50) and
\* 225179981368524800
DecTestValid == <<2,2,5,1,7,9,9,8,1,3,6,8,5,2,4,8>>
DecTestTooBig == <<2,2,5,1,7,9,9,8,1,3,6,8,5,2,4,8,0,0>>

\* texts handed to UnmarshalJSON directly
IntTexts ==
    { <<Num(Lit(n, d))>> :
        n \in BOOLEAN,
        d \in {<<0>>, <<7>>, Dec2p53m1, Dec2p53, Dec2p63m1, Dec2p63, Dec2p63p1,
               Dec2p64m1, Dec2p64, DecTestValid, DecTestTooBig} }
    \cup { <<Num([neg |-> FALSE, digits |-> <<1>>, frac |-> TRUE])>>,
           <<Null>>, <<Str("7")>>, <<LBrace, RBrace>>, <<>>,
           <<Ws, Num(Lit(FALSE, Dec2p53)), Ws>> }

\* the value the receiver holds before a decode: zero, a valid value, 2<<54
IntPriors ==
    { Int64Of(FALSE, Zero3), Int64Of(FALSE, <<0, 0, 7>>),
      Int64Of(FALSE, <<2^13, 0, 0>>) }

InitInt ==
    /\ fn \in {"Int", "UnsignedInt"}
    /\ arg \in { [mode |-> "value", v |-> v, prior |-> p] :
                   v \in IF fn = "Int" THEN Int64Values ELSE Uint64Values,
                   p \in IntPriors }
          \cup { [mode |-> "text", text |-> t, prior |-> p] :
                   t \in IntTexts, p \in IntPriors }
    /\ ret = Pending
    /\ NoWire /\ NoClient

\* the text a decode call is given: the caller's, or the one just encoded
IntDecodeInput == IF arg.mode = "text" THEN arg.text ELSE ret.out

\* whether the decode call is the next step
IntDecodeReady ==
    IF arg.mode = "text" THEN ret = Pending
    ELSE ret.state = "marshalled" /\ ret.err = Nil

CallIntMarshalJSON ==
    /\ fn = "Int" /\ arg.mode = "value" /\ ret = Pending
    /\ ret' = [state |-> "marshalled"] @@ IntMarshalJSON(arg.v)
    /\ UNCHANGED <<fn, arg, wireVars, clientVars>>

CallIntUnmarshalJSON ==
    /\ fn = "Int" /\ IntDecodeReady
    /\ ret' = Returned(IntUnmarshalJSON(arg.prior, IntDecodeInput))
    /\ UNCHANGED <<fn, arg, wireVars, clientVars>>

CallUnsignedIntMarshalJSON ==
    /\ fn = "UnsignedInt" /\ arg.mode = "value" /\ ret = Pending
    /\ ret' = [state |-> "marshalled"] @@ UnsignedIntMarshalJSON(arg.v)
    /\ UNCHANGED <<fn, arg, wireVars, clientVars>>

CallUnsignedIntUnmarshalJSON ==
    /\ fn = "UnsignedInt" /\ IntDecodeReady
    /\ ret' = Returned(UnsignedIntUnmarshalJSON(arg.prior, IntDecodeInput))
    /\ UNCHANGED <<fn, arg, wireVars, clientVars>>

NextInt ==
    \/ CallIntMarshalJSON
    \/ CallIntUnmarshalJSON
    \/ CallUnsignedIntMarshalJSON
    \/ CallUnsignedIntUnmarshalJSON

SpecInt == InitInt /\ [][NextInt]_vars

-----------------------------------------------------------------------------
(* Properties of the bounded integer types *)

IntTypes == {"Int", "UnsignedInt"}

\* |v| <= 2^53-1, read off the limbs: the magnitude is below 2^11 * 2^42
Below2p53(v) == v.mag[1] < 2^11

RECURSIVE DecLexLeq(_, _, _)
\* a[k..] <= b[k..] for digit strings of the same length
DecLexLeq(a, b, k) ==
    IF k > Len(a) THEN TRUE
    ELSE IF a[k] # b[k] THEN a[k] < b[k]
    ELSE DecLexLeq(a, b, k + 1)

\* a <= b for canonical decimal digit strings
DecLeq(a, b) == Len(a) < Len(b) \/ (Len(a) = Len(b) /\ DecLexLeq(a, b, 1))

\* the literal lies in the range of the Go primitive (int64, uint64)
FitsPrimitive(type, lit) ==
    IF type = "Int"
    THEN DecLeq(lit.digits, IF lit.neg THEN Dec2p63 ELSE Dec2p63m1)
    ELSE ~lit.neg /\ DecLeq(lit.digits, Dec2p64m1)

\* the literal lies in the range of the JMAP type
FitsType(type, lit) ==
    DecLeq(lit.digits, Dec2p53m1) /\ (type = "UnsignedInt" => ~lit.neg)

\* the literal with -0 written as 0
Canonical(lit) == Lit(lit.neg /\ lit.digits # <<0>>, lit.digits)

\* C9: Int.Valid() is true exactly for |v| <= 2^53-1 and UnsignedInt.Valid()
\* exactly for v <= 2^53-1; encoding fails with the out-of-range error if and
\* only if Valid() is false, and then nothing is emitted; every valid value
\* decodes from its encoding to itself.
C9_ValidRangeAndRoundTrip ==
    (fn \in IntTypes /\ arg.mode = "value") =>
        LET valid == IF fn = "Int" THEN IntValid(arg.v)
                     ELSE UnsignedIntValid(arg.v)
        IN /\ valid <=> Below2p53(arg.v)
           /\ ret.state = "marshalled" =>
                 /\ (ret.err = ErrOutOfRange) <=> ~valid
                 /\ (ret.err = Nil) <=> valid
                 /\ ~valid => ret.out = <<>>
           /\ ret.state = "returned" =>
                 /\ valid
                 /\ ret.err = Nil
                 /\ ret.i = arg.v

\* -(2^53-1) was encoded and decoded back into a receiver that held 2<<54
C9_Witness ==
    /\ fn = "Int" /\ arg.mode = "value" /\ ret.state = "returned"
    /\ arg.v = [neg |-> TRUE, mag |-> <<2^11 - 1, Base - 1, Base - 1>>]
    /\ arg.prior.mag = <<2^13, 0, 0>>
    /\ ret.i = arg.v

\* C10: a literal that parses as the 64-bit primitive but lies outside the
\* range of the type makes the decode fail with the out-of-range error; a
\* decode that reports success leaves a value in range which is the value
\* of the literal (never a clamped one).
C10_DecodeRevalidates ==
    (fn \in IntTypes /\ arg.mode = "text" /\ ret.state = "returned") =>
        LET v == Compact(arg.text)
            isnum == Len(v) = 1 /\ v[1].k = "num" /\ ~v[1].n.frac
        IN /\ (isnum /\ FitsPrimitive(fn, v[1].n) /\ ~FitsType(fn, v[1].n))
                 => ret.err = ErrOutOfRange
           /\ ret.err = Nil =>
                 /\ Below2p53(ret.i)
                 /\ isnum => /\ FitsType(fn, v[1].n)
                             /\ FormatInt(ret.i) = <<Num(Canonical(v[1].n))>>

\* the literal 225179981368524800 was refused with the out-of-range error
C10_Witness ==
    /\ fn = "Int" /\ arg.mode = "text" /\ ret.state = "returned"
    /\ arg.text = <<Num(Lit(FALSE, DecTestTooBig))>>
    /\ ret.err = ErrOutOfRange

-----------------------------------------------------------------------------
(* Characters and identifiers.  A Go string is modelled, where its bytes   *)
(* matter, as the sequence of its characters; a character is a one-letter   *)
(* string, or a name for a character that is not printable ASCII.           *)

\* the printable ASCII characters in the order of their codes, 32 to 126
\* (the grave accent, code 96, goes by its name)
Ascii ==
   << " ", "!", "\"", "#", "$", "%", "&", "'", "(", ")", "*", "+",
      ",", "-", ".", "/", "0", "1", "2", "3", "4", "5", "6", "7",
      "8", "9", ":", ";", "<", "=", ">", "?", "@", "A", "B", "C",
      "D", "E", "F", "G", "H", "I", "J", "K", "L", "M", "N", "O",
      "P", "Q", "R", "S", "T", "U", "V", "W", "X", "Y", "Z", "[",
      "\\", "]", "^", "_", "U+0060", "a", "b", "c", "d", "e", "f", "g",
      "h", "i", "j", "k", "l", "m", "n", "o", "p", "q", "r", "s",
      "t", "u", "v", "w", "x", "y", "z", "{", "|", "}", "~" >>

\* characters outside printable ASCII: line feed, e with acute accent,
\* ARABIC-INDIC DIGIT ONE, and the byte 0xFF, which is no UTF-8 at all
OtherChars == {"LF", "U+00E9", "U+0661", "0xFF"}

\* the UTF-8 bytes of a character
Utf8(c) ==
    CASE c = "LF" -> <<10>>
      [] c = "U+00E9" -> <<195, 169>>
      [] c = "U+0661" -> <<217, 161>>
      [] c = "0xFF" -> <<255>>
      [] OTHER -> <<CHOOSE i \in 32..126 : Ascii[i - 31] = c>>

RECURSIVE Octets(_)
\* []byte(s)
Octets(s) ==
    IF Len(s) = 0 THEN <<>>
    ELSE IF Len(s) = 1 THEN Utf8(s[1])
    ELSE Octets(SubSeq(s, 1, Len(s) \div 2))
         \o Octets(SubSeq(s, Len(s) \div 2 + 1, Len(s)))

\* the characters of the strings that the JSON texts of the inputs carry
Chars(s) ==
    CASE s = "" -> <<>>
      [] s = "abc" -> <<"a", "b", "c">>
      [] s = "xyz" -> <<"x", "y", "z">>
      [] s = "old" -> <<"o", "l", "d">>
      [] s = "imsafe" -> <<"i", "m", "s", "a", "f", "e">>
      [] s = "iamValid0_-" -> <<"i", "a", "m", "V", "a", "l", "i", "d", "0", "_", "-">>
      [] s = "i'mnot0" -> <<"i", "'", "m", "n", "o", "t", "0">>
      [] s = "im bad too0" -> <<"i", "m", " ", "b", "a", "d", " ", "t", "o", "o", "0">>
      [] s = "i'mnot valid" -> <<"i", "'", "m", "n", "o", "t", " ", "v", "a", "l", "i", "d">>
      [] s = "NIL" -> <<"N", "I", "L">>
      [] s = "-000" -> <<"-", "0", "0", "0">>
      [] s = "000" -> <<"0", "0", "0">>
      [] s = "0aaa" -> <<"0", "a", "a", "a">>

\* utf8.DecodeRune of b[i..]: the rune and the bytes it takes (sequences of
\* one or two bytes; any other byte above 127 decodes to U+FFFD)
DecodeRune(b, i) ==
    IF b[i] < 128 THEN [r |-> b[i], size |-> 1]
    ELSE IF b[i] \in 194..223 /\ i < Len(b) /\ b[i + 1] \in 128..191
    THEN [r |-> (b[i] - 192) * 64 + (b[i + 1] - 128), size |-> 2]
    ELSE [r |-> 65533, size |-> 1]

\* the positions of b at which a rune begins: every byte but the second one
\* of a two-byte sequence
RuneStarts(b) ==
    SelectSeq([i \in 1..Len(b) |-> i],
              LAMBDA i : ~(i > 1 /\ b[i] \in 128..191 /\ b[i - 1] \in 194..223))

\* the runes of b, as a regexp or a range loop sees them
Runes(b) ==
    With(RuneStarts(b), LAMBDA at :
        [k \in 1..Len(at) |-> DecodeRune(b, at[k]).r])

\* unicode.IsDigit, for ASCII and the Arabic-Indic digits
IsDigit(r) == r \in 48..57 \/ r \in 1632..1641

ErrInvalidId == "jmap: invalid id"

\* the character class [A-Za-z0-9\-_]
ValidIdClass(r) ==
    r \in 65..90 \/ r \in 97..122 \/ r \in 48..57 \/ r = 45 \/ r = 95

\* the class of a pattern that also admits '+' and '/' (standard Base 64)
ValidIdClass_Base64(r) == ValidIdClass(r) \/ r = 43 \/ r = 47

\* validIdRegexp.MatchString: ^[A-Za-z0-9\-_]+$ over the runes of the text
ValidIdRegexpMatchString(b) ==
    With(Runes(b), LAMBDA rs :
        Len(rs) >= 1 /\ \A i \in 1..Len(rs) : ValidIdClass(rs[i]))

\* Valid without the test of the length
IDValid_NoLength(id) == ValidIdRegexpMatchString(Octets(id))

\* func (id ID) Valid() bool
IDValid(id) ==
    With(Octets(id), LAMBDA b :
        IF Len(b) < 1 \/ Len(b) > 255 THEN FALSE
        ELSE ValidIdRegexpMatchString(b))

\* Safe without the test of the first byte
IDSafe_OnlyDigitsTest(id) ==
    IF ~IDValid(id) THEN FALSE
    ELSE With(Runes(Octets(id)), LAMBDA rs :
        IF \A i \in 1..Len(rs) : IsDigit(rs[i]) THEN FALSE
        ELSE IF rs = <<78, 73, 76>> THEN FALSE
        ELSE TRUE)

\* func (id ID) Safe() bool
IDSafe(id) ==
    IF ~IDValid(id) THEN FALSE
    ELSE With(Octets(id), LAMBDA b :
        IF b[1] = 45 \/ IsDigit(b[1]) THEN FALSE
        ELSE IF \A i \in 1..Len(Runes(b)) : IsDigit(Runes(b)[i])
        THEN FALSE
        ELSE IF b = <<78, 73, 76>> THEN FALSE
        ELSE TRUE)

\* func (id ID) MarshalText() ([]byte, error)
IDMarshalText(id) ==
    IF ~IDValid(id) THEN [err |-> ErrInvalidId, out |-> <<>>]
    ELSE [err |-> Nil, out |-> Octets(id)]

-----------------------------------------------------------------------------
(* The Request / Response envelope.  A Go slice is a sequence and a Go map  *)
(* a function; the nil slice and the nil map are the empty ones.            *)

\* type testArgs struct { Argument string `json:"arg"` }
TestArgs(s) == [go |-> "testArgs", Argument |-> s]
\* type MethodErrorArgs struct { Type ErrorCode; Properties map[string]interface{} }
\* a property value is held as its compact JSON text
MethodErrorArgs(t, p) == [go |-> "MethodErrorArgs", Type |-> t, Properties |-> p]
\* the nil interface value
NilArgs == [go |-> "nil"]
\* type Invocation struct { Name, CallID string; Args interface{} }
Invocation(n, c, a) == [Name |-> n, CallID |-> c, Args |-> a]

ErrMissingType == "jmap: missing type field in error object"
\* func (ume UnknownMethodError) Error() string
UnknownMethodError(methodName) == "jmap: unknown method name: " \o methodName
\* *json.MarshalerError wrapping the error of a MarshalJSON / MarshalText method
MarshalerError(e) == "json: error calling Marshaler: " \o e

\* the map keys of the inputs, in the byte order the encoder sorts them by
KeyOrder == <<"", "Properties", "Title", "abc", "description", "detail",
              "instance", "limit", "old", "properties", "status", "title",
              "type", "xyz">>
SortedKeys(m) == SelectSeq(KeyOrder, LAMBDA k : k \in DOMAIN m)

\* the case folding by which the decoder matches an object key to a field
Fold(k) ==
    CASE k = "Type" -> "type"
      [] k = "Arg" -> "arg"
      [] k = "Properties" -> "properties"
      [] k = "Title" -> "title"
      [] OTHER -> k
KeyIs(key, field) == Fold(key) = Fold(field)

\* the first error that was saved
FirstErr(saved, e) == IF saved # Nil THEN saved ELSE e

\* func (id *ID) UnmarshalJSON(data []byte) error, on a zero ID
IDUnmarshalJSON(d) ==
    With(UnmarshalString(d, ""), LAMBDA s :
        IF s.err # Nil THEN s
        ELSE IF ~IDValid(Chars(s.val)) THEN [err |-> ErrInvalidId, val |-> s.val]
        ELSE s)

\* func (me MethodErrorArgs) MarshalJSON() ([]byte, error)
MethodErrorArgsMarshalJSON(me) ==
    With([k \in DOMAIN me.Properties \cup {"type"} |->
            IF k = "type" THEN <<Str(me.Type)>> ELSE me.Properties[k]],
         LAMBDA fullProps :
        With(SortedKeys(fullProps), LAMBDA keys :
            [err |-> Nil,
             out |-> ObjectText([n \in 1..Len(keys) |->
                                   Member(keys[n], fullProps[keys[n]])])]))

\* json.Marshal(call.Args)
MarshalArgs(a) ==
    IF a.go = "testArgs"
    THEN [err |-> Nil,
          out |-> ObjectText(<<Member("arg", <<Str(a.Argument)>>)>>)]
    ELSE IF a.go = "MethodErrorArgs" THEN MethodErrorArgsMarshalJSON(a)
    ELSE [err |-> Nil, out |-> <<Null>>]

RECURSIVE MarshalArgsLoop_Prepend(_, _, _)
\* the range loop putting each new triplet in front of the collected ones
MarshalArgsLoop_Prepend(calls, k, rawCalls) ==
    IF k > Len(calls) THEN [err |-> Nil, val |-> rawCalls]
    ELSE With(MarshalArgs(calls[k].Args), LAMBDA argsBlob :
        IF argsBlob.err # Nil THEN [err |-> argsBlob.err, val |-> <<>>]
        ELSE MarshalArgsLoop_Prepend(calls, k + 1,
                 <<[Name |-> calls[k].Name, CallID |-> calls[k].CallID,
                    Args |-> argsBlob.out]>> \o rawCalls))

RECURSIVE MarshalArgsLoop(_, _, _)
\* for _, call := range r.Calls { argsBlob, err := json.Marshal(call.Args) ...
\*     raw.RawCalls = append(raw.RawCalls, rawInvocation{...}) }
MarshalArgsLoop(calls, k, rawCalls) ==
    IF k > Len(calls) THEN [err |-> Nil, val |-> rawCalls]
    ELSE With(MarshalArgs(calls[k].Args), LAMBDA argsBlob :
        IF argsBlob.err # Nil THEN [err |-> argsBlob.err, val |-> <<>>]
        ELSE MarshalArgsLoop(calls, k + 1,
                 Append(rawCalls,
                        [Name |-> calls[k].Name, CallID |-> calls[k].CallID,
                         Args |-> argsBlob.out])))

\* the encoder on a []string field
MarshalStringSlice(ss) ==
    IF ss = <<>> THEN <<Null>>
    ELSE ArrayText([n \in 1..Len(ss) |-> <<Str(ss[n])>>])

\* the encoder on a non-empty map[ID]ID field: keys are written as they are,
\* in sorted order, each value through ID.MarshalText
MarshalIDMap(m) ==
    IF \E k \in DOMAIN m : ~IDValid(Chars(m[k]))
    THEN [err |-> MarshalerError(ErrInvalidId), out |-> <<>>]
    ELSE With(SortedKeys(m), LAMBDA keys :
             [err |-> Nil,
              out |-> ObjectText([n \in 1..Len(keys) |->
                                    Member(keys[n], <<Str(m[keys[n]])>>)])])

\* the encoder on a []rawInvocation field: rawInvocation.MarshalJSON on each
MarshalRawInvocations(rs) ==
    With([n \in 1..Len(rs) |-> RawInvocationMarshalJSON(rs[n])], LAMBDA ts :
        With({n \in 1..Len(rs) : ts[n].err # Nil}, LAMBDA bad :
            IF bad # {}
            THEN [err |-> MarshalerError(ts[CHOOSE n \in bad :
                                             \A o \in bad : n <= o].err),
                  out |-> <<>>]
            ELSE [err |-> Nil,
                  out |-> ArrayText([n \in 1..Len(rs) |-> ts[n].out])]))

\* the members that are present, in field order; the first error met
MarshalStruct(fields) ==
    With(SelectSeq(fields, LAMBDA f : ~f.omit), LAMBDA present :
        With({n \in 1..Len(present) : present[n].enc.err # Nil}, LAMBDA bad :
            IF bad # {}
            THEN [err |-> present[CHOOSE n \in bad :
                                    \A o \in bad : n <= o].enc.err,
                  out |-> <<>>]
            ELSE [err |-> Nil,
                  out |-> ObjectText([n \in 1..Len(present) |->
                                        Member(present[n].key,
                                               present[n].enc.out)])]))

\* func (r Request) MarshalJSON() ([]byte, error)
RequestMarshalJSON(r) ==
    With(MarshalArgsLoop(r.Calls, 1, <<>>), LAMBDA loop :
        IF loop.err # Nil THEN [err |-> loop.err, out |-> <<>>]
        ELSE MarshalStruct(<<
               [key |-> "using", omit |-> FALSE,
                enc |-> [err |-> Nil, out |-> MarshalStringSlice(r.Using)]],
               [key |-> "createdIds", omit |-> DOMAIN r.CreatedIDs = {},
                enc |-> MarshalIDMap(r.CreatedIDs)],
               [key |-> "methodCalls", omit |-> FALSE,
                enc |-> MarshalRawInvocations(loop.val)] >>))

\* func (r Response) MarshalJSON() ([]byte, error)
ResponseMarshalJSON(r) ==
    With(MarshalArgsLoop(r.Responses, 1, <<>>), LAMBDA loop :
        IF loop.err # Nil THEN [err |-> loop.err, out |-> <<>>]
        ELSE MarshalStruct(<<
               [key |-> "createdIds", omit |-> DOMAIN r.CreatedIDs = {},
                enc |-> MarshalIDMap(r.CreatedIDs)],
               [key |-> "sessionState", omit |-> FALSE,
                enc |-> [err |-> Nil, out |-> <<Str(r.SessionState)>>]],
               [key |-> "methodResponses", omit |-> FALSE,
                enc |-> MarshalRawInvocations(loop.val)] >>))

-----------------------------------------------------------------------------
(* Argument decoders (FuncArgsUnmarshal) *)

RECURSIVE TestArgsMembers(_, _, _)
\* the members from the k-th on stored into a testArgs; st = [saved, val]
TestArgsMembers(ms, k, st) ==
    IF k > Len(ms) THEN st
    ELSE IF KeyIs(ms[k].key, "arg")
    THEN With(UnmarshalString(ms[k].val, st.val.Argument), LAMBDA a :
             TestArgsMembers(ms, k + 1,
                 [saved |-> FirstErr(st.saved, a.err),
                  val |-> TestArgs(a.val)]))
    ELSE TestArgsMembers(ms, k + 1, st)

\* func unmarshalTestArgs(args json.RawMessage) (interface{}, error)
unmarshalTestArgs(args) ==
    IF ~Valid(args) THEN [err |-> ErrSyntax, val |-> TestArgs("")]
    ELSE With(Trim(args), LAMBDA v :
        IF v[1].k = "null" THEN [err |-> Nil, val |-> TestArgs("")]
        ELSE IF v[1].k # "{" THEN [err |-> ErrType, val |-> TestArgs("")]
        ELSE With(TestArgsMembers(ObjectMembers(v), 1,
                                  [saved |-> Nil, val |-> TestArgs("")]),
                  LAMBDA st : [err |-> st.saved, val |-> st.val]))

RECURSIVE PutMembers(_, _, _)
\* json.Unmarshal of an object into a map[string]interface{} holding m
PutMembers(ms, k, m) ==
    IF k > Len(ms) THEN m
    ELSE PutMembers(ms, k + 1, (ms[k].key :> Compact(ms[k].val)) @@ m)

RECURSIVE MethodErrorArgsMembers(_, _, _)
\* json.Unmarshal(data, &me): the members from the k-th on stored into the
\* fields Type (tag "type") and Properties (no tag); st = [saved, val]
MethodErrorArgsMembers(ms, k, st) ==
    IF k > Len(ms) THEN st
    ELSE IF KeyIs(ms[k].key, "type")
    THEN With(UnmarshalString(ms[k].val, st.val.Type), LAMBDA t :
             MethodErrorArgsMembers(ms, k + 1,
                 [saved |-> FirstErr(st.saved, t.err),
                  val |-> [st.val EXCEPT !.Type = t.val]]))
    ELSE IF KeyIs(ms[k].key, "Properties")
    THEN MethodErrorArgsMembers(ms, k + 1,
             IF ms[k].val[1].k = "null"
             THEN [st EXCEPT !.val.Properties = <<>>]
             ELSE IF ms[k].val[1].k # "{"
             THEN [st EXCEPT !.saved = FirstErr(@, ErrType)]
             ELSE [st EXCEPT !.val.Properties =
                                PutMembers(ObjectMembers(ms[k].val), 1, @)])
    ELSE MethodErrorArgsMembers(ms, k + 1, st)

\* func (me *MethodErrorArgs) UnmarshalJSONArgs(data []byte) error, on an
\* object text; returns the error and the receiver as the call leaves it
MethodErrorArgsUnmarshalJSONArgs(me, d) ==
    IF ~Valid(d) THEN [err |-> ErrSyntax, val |-> me]
    ELSE With(ObjectMembers(Trim(d)), LAMBDA ms :
         With(MethodErrorArgsMembers(ms, 1, [saved |-> Nil, val |-> me]),
              LAMBDA st :
             IF st.saved # Nil THEN [err |-> st.saved, val |-> st.val]
             ELSE With(PutMembers(ms, 1, st.val.Properties), LAMBDA props :
                 IF "type" \notin DOMAIN props
                 THEN [err |-> ErrMissingType,
                       val |-> [st.val EXCEPT !.Properties = props]]
                 ELSE [err |-> Nil,
                       val |-> [st.val EXCEPT !.Properties =
                                   IF DOMAIN props = {"type"} THEN <<>>
                                   ELSE [k \in DOMAIN props \ {"type"} |->
                                           props[k]]]])))

\* func UnmarshalMethodErrorArgs(args json.RawMessage) (interface{}, error)
UnmarshalMethodErrorArgs(args) ==
    MethodErrorArgsUnmarshalJSONArgs(MethodErrorArgs("", <<>>), args)

\* the decoders a registry may hold, by name
Unmarshal(f, args) ==
    IF f = "unmarshalTestArgs" THEN unmarshalTestArgs(args)
    ELSE UnmarshalMethodErrorArgs(args)

-----------------------------------------------------------------------------
(* json.Unmarshal(data, &raw) for rawRequest and rawResponse *)

\* rawRequest{} and rawResponse{}
ZeroRawRequest ==
    [Using |-> <<>>, Calls |-> <<>>, CreatedIDs |-> <<>>, RawCalls |-> <<>>]
ZeroRawResponse ==
    [Responses |-> <<>>, CreatedIDs |-> <<>>, SessionState |-> "",
     RawResponses |-> <<>>]

\* a member value stored into a []string field holding cur
UnmarshalStringSlice(v, cur) ==
    IF v[1].k = "null" THEN [abort |-> Nil, saved |-> Nil, val |-> <<>>]
    ELSE IF v[1].k # "[" THEN [abort |-> Nil, saved |-> ErrType, val |-> cur]
    ELSE With(ArrayElems(v), LAMBDA es :
        [abort |-> Nil,
         saved |-> IF \E n \in 1..Len(es) : es[n][1].k \notin {"str", "null"}
                   THEN ErrType ELSE Nil,
         val |-> [n \in 1..Len(es) |->
                    IF es[n][1].k = "str" THEN es[n][1].v ELSE ""]])

\* a member value stored into a string field holding cur
UnmarshalStringField(v, cur) ==
    With(UnmarshalString(v, cur), LAMBDA s :
        [abort |-> Nil, saved |-> s.err, val |-> s.val])

RECURSIVE IDMapMembers(_, _, _)
\* the members from the k-th on stored into a map[ID]ID holding m: the key as
\* it is, the value through ID.UnmarshalJSON, whose error ends the decoding
IDMapMembers(ms, k, m) ==
    IF k > Len(ms) THEN [abort |-> Nil, saved |-> Nil, val |-> m]
    ELSE With(IDUnmarshalJSON(ms[k].val), LAMBDA id :
        IF id.err # Nil THEN [abort |-> id.err, saved |-> Nil, val |-> m]
        ELSE IDMapMembers(ms, k + 1, (ms[k].key :> id.val) @@ m))

\* a member value stored into a map[ID]ID field holding cur
UnmarshalIDMap(v, cur) ==
    IF v[1].k = "null" THEN [abort |-> Nil, saved |-> Nil, val |-> <<>>]
    ELSE IF v[1].k # "{" THEN [abort |-> Nil, saved |-> ErrType, val |-> cur]
    ELSE IDMapMembers(ObjectMembers(v), 1, cur)

RECURSIVE RawInvocationElems_SkipMalformed(_, _, _)
\* the decoding of the call array leaving out the triplets that
\* rawInvocation.UnmarshalJSON rejects, so that the loop over the calls runs
RawInvocationElems_SkipMalformed(es, k, rs) ==
    IF k > Len(es) THEN [abort |-> Nil, saved |-> Nil, val |-> rs]
    ELSE With(RawInvocationUnmarshalJSON(ZeroRawInvocation, es[k]), LAMBDA r :
        IF r.err # Nil THEN RawInvocationElems_SkipMalformed(es, k + 1, rs)
        ELSE RawInvocationElems_SkipMalformed(es, k + 1, Append(rs, r.i)))

RECURSIVE RawInvocationElems(_, _, _)
\* the elements from the k-th on, each through rawInvocation.UnmarshalJSON,
\* whose error ends the decoding
RawInvocationElems(es, k, rs) ==
    IF k > Len(es) THEN [abort |-> Nil, saved |-> Nil, val |-> rs]
    ELSE With(RawInvocationUnmarshalJSON(ZeroRawInvocation, es[k]), LAMBDA r :
        IF r.err # Nil THEN [abort |-> r.err, saved |-> Nil, val |-> rs]
        ELSE RawInvocationElems(es, k + 1, Append(rs, r.i)))

\* a member value stored into a []rawInvocation field holding cur
UnmarshalRawInvocations(v, cur) ==
    IF v[1].k = "null" THEN [abort |-> Nil, saved |-> Nil, val |-> <<>>]
    ELSE IF v[1].k # "[" THEN [abort |-> Nil, saved |-> ErrType, val |-> cur]
    ELSE RawInvocationElems(ArrayElems(v), 1, <<>>)

\* the field of rawRequest / rawResponse an object key selects ("" when none)
FieldOf(type, key) ==
    With(SelectSeq(IF type = "Request"
                   THEN <<"using", "createdIds", "methodCalls">>
                   ELSE <<"createdIds", "sessionState", "methodResponses">>,
                   LAMBDA f : KeyIs(key, f)),
         LAMBDA hit : IF hit = <<>> THEN "" ELSE hit[1])

\* one member value stored into the field f of rw
UnmarshalField(f, v, rw) ==
    IF f = "using" THEN UnmarshalStringSlice(v, rw.Using)
    ELSE IF f = "createdIds" THEN UnmarshalIDMap(v, rw.CreatedIDs)
    ELSE IF f = "sessionState" THEN UnmarshalStringField(v, rw.SessionState)
    ELSE IF f = "methodCalls" THEN UnmarshalRawInvocations(v, rw.RawCalls)
    ELSE UnmarshalRawInvocations(v, rw.RawResponses)

\* rw with the field f set
WithField(f, val, rw) ==
    IF f = "using" THEN [rw EXCEPT !.Using = val]
    ELSE IF f = "createdIds" THEN [rw EXCEPT !.CreatedIDs = val]
    ELSE IF f = "sessionState" THEN [rw EXCEPT !.SessionState = val]
    ELSE IF f = "methodCalls" THEN [rw EXCEPT !.RawCalls = val]
    ELSE [rw EXCEPT !.RawResponses = val]

RECURSIVE RawMembers(_, _, _, _)
\* the members from the k-th on stored into raw; st = [abort, saved, raw]
RawMembers(type, ms, k, st) ==
    IF k > Len(ms) THEN st
    ELSE With(FieldOf(type, ms[k].key), LAMBDA f :
        IF f = "" THEN RawMembers(type, ms, k + 1, st)
        ELSE With(UnmarshalField(f, ms[k].val, st.raw), LAMBDA u :
            IF u.abort # Nil THEN [st EXCEPT !.abort = u.abort]
            ELSE RawMembers(type, ms, k + 1,
                     [abort |-> Nil,
                      saved |-> FirstErr(st.saved, u.saved),
                      raw |-> WithField(f, u.val, st.raw)])))

\* json.Unmarshal(data, &raw), raw being the zero rawRequest / rawResponse
UnmarshalRaw(type, d) ==
    With(IF type = "Request" THEN ZeroRawRequest ELSE ZeroRawResponse,
         LAMBDA zero :
        IF ~Valid(d) THEN [err |-> ErrSyntax, raw |-> zero]
        ELSE With(Trim(d)[1].k, LAMBDA first :
            IF first = "null" THEN [err |-> Nil, raw |-> zero]
            ELSE IF first # "{" THEN [err |-> ErrType, raw |-> zero]
            ELSE With(RawMembers(type, ObjectMembers(Trim(d)), 1,
                          [abort |-> Nil, saved |-> Nil, raw |-> zero]),
                      LAMBDA st :
                     [err |-> IF st.abort # Nil THEN st.abort ELSE st.saved,
                      raw |-> st.raw])))

-----------------------------------------------------------------------------
(* Inputs of the envelope codec *)

\* the largest number of calls in a body or in a value
MaxCalls == 2

Ok(v) == [ok |-> TRUE, val |-> v]
Fails == [ok |-> FALSE, val |-> NilArgs]

\* a well-formed triplet [name, args, callId] together with what each of
\* the two decoders is to make of args
Call(name, callId, args, asTest, asError) ==
    [name |-> name, callId |-> callId, wellFormed |-> TRUE,
     text |-> ArrayText(<<<<Str(name)>>, args, <<Str(callId)>>>>),
     asTest |-> asTest, asError |-> asError]
\* a triplet that rawInvocation.UnmarshalJSON rejects
Broken(text) ==
    [name |-> "", callId |-> "", wellFormed |-> FALSE, text |-> text,
     asTest |-> Fails, asError |-> Fails]

ArgFoo == ObjectText(<<Member("arg", <<Str("foo")>>)>>)
ArgBar == ObjectText(<<Member("arg", <<Ws, Str("bar")>>)>>)
ArgOne == ObjectText(<<Member("arg", <<One>>)>>)
ArgUnknownMethod == ObjectText(<<Member("type", <<Str("unknownMethod")>>)>>)
ArgServerFail ==
    ObjectText(<<Member("type", <<Str("serverFail")>>),
                 Member("description", <<Ws, Str("x")>>)>>)
ArgNoType == ObjectText(<<Member("description", <<Str("x")>>)>>)

ErrUnknownMethodArgs == MethodErrorArgs("unknownMethod", <<>>)
ErrServerFailArgs ==
    MethodErrorArgs("serverFail", "description" :> <<Str("x")>>)

CallFoo == Call("NAME", "id", ArgFoo, Ok(TestArgs("foo")), Fails)
CallBar == Call("NAME", "c1", ArgBar, Ok(TestArgs("bar")), Fails)
CallUnknown == Call("unknown", "id", ArgFoo, Ok(TestArgs("foo")), Fails)
CallError ==
    Call("error", "id", ArgUnknownMethod, Ok(TestArgs("")),
         Ok(ErrUnknownMethodArgs))
CallError2 ==
    Call("error", "c1", ArgServerFail, Ok(TestArgs("")), Ok(ErrServerFailArgs))
CallErrorNoType == Call("error", "id", ArgNoType, Ok(TestArgs("")), Fails)
CallBadArg == Call("NAME", "id", ArgOne, Fails, Fails)
CallShort == Broken(ArrayText(<<<<Str("NAME")>>, ArgFoo>>))
CallNullArgs == Broken(ArrayText(<<<<Str("NAME")>>, <<Null>>, <<Str("id")>>>>))

Triplets ==
    { CallFoo, CallBar, CallUnknown, CallError, CallError2, CallErrorNoType,
      CallBadArg, CallShort, CallNullArgs }

\* the members other than the calls: each text (<<>> when the member is
\* absent), the Go value it stands for, and whether its decoding fails
Metas ==
    { [usingText |-> <<>>, using |-> <<>>, usingBad |-> FALSE,
       createdText |-> <<>>, created |-> <<>>, createdBad |-> FALSE,
       stateText |-> <<>>, state |-> "", stateBad |-> FALSE],
      [usingText |-> ArrayText(<<<<Str("cap")>>>>), using |-> <<"cap">>,
       usingBad |-> FALSE,
       createdText |-> <<>>, created |-> <<>>, createdBad |-> FALSE,
       stateText |-> <<Str("state!")>>, state |-> "state!",
       stateBad |-> FALSE],
      [usingText |-> ArrayText(<<<<Str("cap")>>, <<Str("mail")>>>>),
       using |-> <<"cap", "mail">>, usingBad |-> FALSE,
       createdText |-> ObjectText(<<Member("abc", <<Str("abc")>>)>>),
       created |-> "abc" :> "abc", createdBad |-> FALSE,
       stateText |-> <<Str("state!")>>, state |-> "state!",
       stateBad |-> FALSE],
      [usingText |-> <<Null>>, using |-> <<>>, usingBad |-> FALSE,
       createdText |-> ObjectText(<<Member("", <<Ws, Str("abc")>>),
                                    Member("xyz", <<Str("abc")>>)>>),
       created |-> ("" :> "abc") @@ ("xyz" :> "abc"), createdBad |-> FALSE,
       stateText |-> <<Null>>, state |-> "", stateBad |-> FALSE],
      [usingText |-> ArrayText(<<>>), using |-> <<>>, usingBad |-> FALSE,
       createdText |-> ObjectText(<<Member("abc", <<Str("")>>)>>),
       created |-> <<>>, createdBad |-> TRUE,
       stateText |-> <<Str("state!")>>, state |-> "state!",
       stateBad |-> FALSE],
      [usingText |-> <<One>>, using |-> <<>>, usingBad |-> TRUE,
       createdText |-> <<>>, created |-> <<>>, createdBad |-> FALSE,
       stateText |-> <<One>>, state |-> "", stateBad |-> TRUE] }

\* the members of the repository's test bodies
TestMeta == CHOOSE m \in Metas : m.using = <<"cap">>

\* sequences of at most n triplets
CallSeqs(n) == UNION { [1..k -> Triplets] : k \in 0..n }

\* the body texts handed to Unmarshal: an object, or a text of another shape
Bodies ==
    { [origin |-> "given", shape |-> "object", meta |-> TestMeta, calls |-> cs]
        : cs \in CallSeqs(MaxCalls) }
    \cup { [origin |-> "given", shape |-> "object", meta |-> m, calls |-> cs]
             : m \in Metas,
               cs \in {<<>>, <<CallFoo>>, <<CallError>>, <<CallUnknown>>,
                       <<CallShort>>} }
    \cup { [origin |-> "given", shape |-> sh, meta |-> TestMeta, calls |-> <<>>]
             : sh \in {"null", "array", "truncated"} }

\* the text of a body for a Request or a Response
BodyText(type, b) ==
    IF b.shape = "null" THEN <<Null>>
    ELSE IF b.shape = "array" THEN <<LBracket, RBracket>>
    ELSE IF b.shape = "truncated" THEN <<LBrace, Str("using"), Colon>>
    ELSE LET callsKey == IF type = "Request" THEN "methodCalls"
                         ELSE "methodResponses"
             all == << [key |-> "using", val |-> b.meta.usingText],
                       [key |-> "createdIds", val |-> b.meta.createdText],
                       [key |-> "sessionState", val |-> b.meta.stateText],
                       [key |-> callsKey,
                        val |-> ArrayText([n \in 1..Len(b.calls) |->
                                             b.calls[n].text])] >>
             present == SelectSeq(all, LAMBDA m : m.val # <<>>)
         IN ObjectText([n \in 1..Len(present) |->
                          Member(present[n].key, present[n].val)])

\* the invocations of the values handed to MarshalJSON
Invocations ==
    { Invocation("NAME", "id", TestArgs("foo")),
      Invocation("NAME", "c1", TestArgs("bar")),
      Invocation("unknown", "id", TestArgs("foo")),
      Invocation("error", "id", ErrUnknownMethodArgs),
      Invocation("error", "c1", ErrServerFailArgs),
      Invocation("NAME", "id", NilArgs) }

InvocationSeqs(n) == UNION { [1..k -> Invocations] : k \in 0..n }

\* the fields of the values handed to MarshalJSON
Values ==
    { [Using |-> <<"cap">>, Calls |-> cs, CreatedIDs |-> <<>>,
       SessionState |-> "state!"] : cs \in InvocationSeqs(MaxCalls) }
    \cup { [Using |-> u, Calls |-> cs, CreatedIDs |-> c, SessionState |-> ""]
             : u \in {<<>>, <<"cap", "mail">>},
               c \in {"abc" :> "abc", "abc" :> "",
                      ("xyz" :> "abc") @@ ("" :> "abc")},
               cs \in {<<Invocation("NAME", "id", TestArgs("foo"))>>} }

\* a Request / Response with the given fields
ValueOf(type, v) ==
    IF type = "Request"
    THEN [Using |-> v.Using, Calls |-> v.Calls, CreatedIDs |-> v.CreatedIDs]
    ELSE [Responses |-> v.Calls, CreatedIDs |-> v.CreatedIDs,
          SessionState |-> v.SessionState]

Inputs == Bodies \cup { [origin |-> "MarshalJSON", value |-> v] : v \in Values }

\* the receiver before the call: every field holds something
OldValue(type) ==
    ValueOf(type, [Using |-> <<"old">>,
                   Calls |-> <<Invocation("OLD", "o", TestArgs("old"))>>,
                   CreatedIDs |-> "old" :> "old", SessionState |-> "old"])

\* the registries the callers supply
Registries ==
    { <<>>,
      "NAME" :> "unmarshalTestArgs",
      ("NAME" :> "unmarshalTestArgs") @@ ("error" :> "unmarshalTestArgs"),
      ("NAME" :> "unmarshalTestArgs") @@ ("unknown" :> "unmarshalTestArgs")
          @@ ("error" :> "UnmarshalMethodErrorArgs") }

-----------------------------------------------------------------------------
(* The goroutines: each encodes a value and decodes the resulting body, or   *)
(* decodes a given body, into its own receiver.  All share one registry.     *)

\* the pure codec calls are idle
NoCall == fn = "" /\ arg = <<>> /\ ret = Pending

\* n goroutines, each with one of the inputs
InitWire(n, inputs) ==
    /\ NoCall /\ NoClient
    /\ registry \in Registries
    /\ kind \in [1..n -> {"Request", "Response"}]
    /\ body \in [1..n -> inputs]
    /\ src = [g \in 1..n |->
                IF body[g].origin = "MarshalJSON"
                THEN ValueOf(kind[g], body[g].value) ELSE <<>>]
    /\ data = [g \in 1..n |->
                 IF body[g].origin = "given"
                 THEN BodyText(kind[g], body[g]) ELSE <<>>]
    /\ pc = [g \in 1..n |->
               IF body[g].origin = "MarshalJSON" THEN "marshal"
               ELSE "unmarshal"]
    /\ old = [g \in 1..n |-> OldValue(kind[g])]
    /\ recv = old
    /\ raw = [g \in 1..n |->
                IF kind[g] = "Request" THEN ZeroRawRequest
                ELSE ZeroRawResponse]
    /\ idx = [g \in 1..n |-> 0]
    /\ err = [g \in 1..n |-> "pending"]

\* return e from Unmarshal
Return(g, e) ==
    /\ pc' = [pc EXCEPT ![g] = "done"]
    /\ err' = [err EXCEPT ![g] = e]

\* MarshalJSON returned m: its error ends the goroutine, its output becomes
\* the body to decode
Marshalled(g, m) ==
    IF m.err # Nil
    THEN /\ pc' = [pc EXCEPT ![g] = "failed"]
         /\ err' = [err EXCEPT ![g] = m.err]
         /\ data' = data
    ELSE /\ pc' = [pc EXCEPT ![g] = "unmarshal"]
         /\ data' = [data EXCEPT ![g] = m.out]
         /\ err' = err

\* json.Unmarshal(data, &raw) returned r: if err != nil { return err };
\* raw.Calls = make([]Invocation, 0, len(raw.RawCalls)), and the loop begins
Parsed(g, r) ==
    IF r.err # Nil
    THEN Return(g, r.err) /\ UNCHANGED <<raw, idx>>
    ELSE /\ raw' = [raw EXCEPT ![g] = r.raw]
         /\ idx' = [idx EXCEPT ![g] = 1]
         /\ pc' = [pc EXCEPT ![g] = "loop"]
         /\ err' = err

\* args, err := unmarshal(rawCall.Args) returned a: if err != nil { return
\* err }; raw.Calls = append(raw.Calls, Invocation{...})
Decoded(g, rawCall, a) ==
    IF a.err # Nil
    THEN Return(g, a.err) /\ UNCHANGED <<raw, idx>>
    ELSE /\ raw' = [raw EXCEPT ![g] =
                      IF kind[g] = "Request"
                      THEN [@ EXCEPT !.Calls =
                              Append(@, Invocation(rawCall.Name,
                                                   rawCall.CallID, a.val))]
                      ELSE [@ EXCEPT !.Responses =
                              Append(@, Invocation(rawCall.Name,
                                                   rawCall.CallID, a.val))]]
         /\ idx' = [idx EXCEPT ![g] = @ + 1]
         /\ UNCHANGED <<pc, err>>

\* the lookup returned look: if !ok { return UnknownMethodError{...} },
\* otherwise the decoder is applied to the raw arguments
Looked(g, rawCall, look) ==
    IF ~look.ok
    THEN Return(g, UnknownMethodError(rawCall.Name)) /\ UNCHANGED <<raw, idx>>
    ELSE Decoded(g, rawCall, Unmarshal(look.unmarshal, rawCall.Args))

\* blob, err := json.Marshal(req), followed by the hand-over of blob
CallRequestMarshalJSON(g) ==
    /\ pc[g] = "marshal" /\ kind[g] = "Request"
    /\ Marshalled(g, RequestMarshalJSON(src[g]))
    /\ UNCHANGED <<pureVars, clientVars, registry, kind, src, recv, old, raw, idx, body>>

\* blob, err := json.Marshal(resp), followed by the hand-over of blob
CallResponseMarshalJSON(g) ==
    /\ pc[g] = "marshal" /\ kind[g] = "Response"
    /\ Marshalled(g, ResponseMarshalJSON(src[g]))
    /\ UNCHANGED <<pureVars, clientVars, registry, kind, src, recv, old, raw, idx, body>>

\* Request.Unmarshal with json.Unmarshal(data, r) in place of the local raw
RequestUnmarshalParse_IntoReceiver(g) ==
    /\ pc[g] = "unmarshal" /\ kind[g] = "Request"
    /\ Parsed(g, UnmarshalRaw("Request", data[g]))
    /\ recv' = [recv EXCEPT ![g] =
                  [@ EXCEPT !.Using = raw'[g].Using,
                            !.CreatedIDs = raw'[g].CreatedIDs]]
    /\ UNCHANGED <<pureVars, clientVars, registry, kind, src, data, old, body>>

\* Request.Unmarshal up to the range loop:
\* raw := rawRequest{}; json.Unmarshal(data, &raw); raw.Calls = make(...)
RequestUnmarshalParse(g) ==
    /\ pc[g] = "unmarshal" /\ kind[g] = "Request"
    /\ Parsed(g, UnmarshalRaw("Request", data[g]))
    /\ UNCHANGED <<pureVars, clientVars, registry, kind, src, data, recv, old, body>>

\* the lookup of Request.Unmarshal with "error" served by the built-in decoder
RequestDecoder_ErrorBuiltIn(argsUnmarshallers, name) ==
    IF name = "error" THEN [ok |-> TRUE, unmarshal |-> "UnmarshalMethodErrorArgs"]
    ELSE IF name \in DOMAIN argsUnmarshallers
    THEN [ok |-> TRUE, unmarshal |-> argsUnmarshallers[name]]
    ELSE [ok |-> FALSE, unmarshal |-> ""]

\* unmarshal, ok := argsUnmarshallers[rawCall.Name]
RequestDecoder(argsUnmarshallers, name) ==
    IF name \in DOMAIN argsUnmarshallers
    THEN [ok |-> TRUE, unmarshal |-> argsUnmarshallers[name]]
    ELSE [ok |-> FALSE, unmarshal |-> ""]

\* one iteration of the range loop of Request.Unmarshal
RequestUnmarshalCall(g) ==
    /\ pc[g] = "loop" /\ kind[g] = "Request"
    /\ idx[g] <= Len(raw[g].RawCalls)
    /\ Looked(g, raw[g].RawCalls[idx[g]],
              RequestDecoder(registry, raw[g].RawCalls[idx[g]].Name))
    /\ UNCHANGED <<pureVars, clientVars, registry, kind, src, data, recv, old, body>>

\* Request.Unmarshal after the loop: r.Using, r.Calls, r.CreatedIDs are
\* assigned and nil is returned
RequestUnmarshalReturn(g) ==
    /\ pc[g] = "loop" /\ kind[g] = "Request"
    /\ idx[g] > Len(raw[g].RawCalls)
    /\ recv' = [recv EXCEPT ![g] = [Using |-> raw[g].Using,
                                    Calls |-> raw[g].Calls,
                                    CreatedIDs |-> raw[g].CreatedIDs]]
    /\ Return(g, Nil)
    /\ UNCHANGED <<pureVars, clientVars, registry, kind, src, data, old, raw, idx, body>>

\* Response.Unmarshal up to the range loop
ResponseUnmarshalParse(g) ==
    /\ pc[g] = "unmarshal" /\ kind[g] = "Response"
    /\ Parsed(g, UnmarshalRaw("Response", data[g]))
    /\ UNCHANGED <<pureVars, clientVars, registry, kind, src, data, recv, old, body>>

\* the lookup of Response.Unmarshal asking the registry first
ResponseDecoder_RegistryFirst(argsUnmarshallers, name) ==
    IF name \in DOMAIN argsUnmarshallers
    THEN [ok |-> TRUE, unmarshal |-> argsUnmarshallers[name]]
    ELSE IF name = "error"
    THEN [ok |-> TRUE, unmarshal |-> "UnmarshalMethodErrorArgs"]
    ELSE [ok |-> FALSE, unmarshal |-> ""]

\* if rawResp.Name != "error" { unmarshal, ok = argsUnmarshallers[...] }
\* else { unmarshal = UnmarshalMethodErrorArgs }
ResponseDecoder(argsUnmarshallers, name) ==
    IF name # "error"
    THEN IF name \in DOMAIN argsUnmarshallers
         THEN [ok |-> TRUE, unmarshal |-> argsUnmarshallers[name]]
         ELSE [ok |-> FALSE, unmarshal |-> ""]
    ELSE [ok |-> TRUE, unmarshal |-> "UnmarshalMethodErrorArgs"]

\* the loop iteration of Response.Unmarshal entering the built-in decoder
\* into the caller's map when it meets an "error" response
ResponseUnmarshalCall_AddsErrorEntry(g) ==
    /\ pc[g] = "loop" /\ kind[g] = "Response"
    /\ idx[g] <= Len(raw[g].RawResponses)
    /\ Looked(g, raw[g].RawResponses[idx[g]],
              ResponseDecoder(registry, raw[g].RawResponses[idx[g]].Name))
    /\ registry' = IF raw[g].RawResponses[idx[g]].Name = "error"
                   THEN ("error" :> "UnmarshalMethodErrorArgs") @@ registry
                   ELSE registry
    /\ UNCHANGED <<pureVars, clientVars, kind, src, data, recv, old, body>>

\* one iteration of the range loop of Response.Unmarshal
ResponseUnmarshalCall(g) ==
    /\ pc[g] = "loop" /\ kind[g] = "Response"
    /\ idx[g] <= Len(raw[g].RawResponses)
    /\ Looked(g, raw[g].RawResponses[idx[g]],
              ResponseDecoder(registry, raw[g].RawResponses[idx[g]].Name))
    /\ UNCHANGED <<pureVars, clientVars, registry, kind, src, data, recv, old, body>>

\* Response.Unmarshal after the loop: r.CreatedIDs, r.Responses and
\* r.SessionState are assigned and nil is returned
ResponseUnmarshalReturn(g) ==
    /\ pc[g] = "loop" /\ kind[g] = "Response"
    /\ idx[g] > Len(raw[g].RawResponses)
    /\ recv' = [recv EXCEPT ![g] = [Responses |-> raw[g].Responses,
                                    CreatedIDs |-> raw[g].CreatedIDs,
                                    SessionState |-> raw[g].SessionState]]
    /\ Return(g, Nil)
    /\ UNCHANGED <<pureVars, clientVars, registry, kind, src, data, old, raw, idx, body>>

\* one goroutine: MarshalJSON, then Unmarshal of what it produced, or
\* Unmarshal of a given body
InitEnvelope == InitWire(1, Inputs)

NextEnvelope ==
    \/ \E g \in DOMAIN pc : CallRequestMarshalJSON(g)
    \/ \E g \in DOMAIN pc : CallResponseMarshalJSON(g)
    \/ \E g \in DOMAIN pc : RequestUnmarshalParse(g)
    \/ \E g \in DOMAIN pc : RequestUnmarshalCall(g)
    \/ \E g \in DOMAIN pc : RequestUnmarshalReturn(g)
    \/ \E g \in DOMAIN pc : ResponseUnmarshalParse(g)
    \/ \E g \in DOMAIN pc : ResponseUnmarshalCall(g)
    \/ \E g \in DOMAIN pc : ResponseUnmarshalReturn(g)

SpecEnvelope == InitEnvelope /\ [][NextEnvelope]_vars

\* the bodies decoded by the goroutines that run side by side
SharedBodies ==
    { [origin |-> "given", shape |-> "object", meta |-> TestMeta, calls |-> cs]
        : cs \in { <<CallFoo>>, <<CallError>>, <<CallUnknown>>,
                   <<CallFoo, CallError>>, <<CallBadArg>> } }

\* two goroutines decoding at the same time with one registry
InitShared == InitWire(2, SharedBodies)

NextShared ==
    \/ \E g \in DOMAIN pc : RequestUnmarshalParse(g)
    \/ \E g \in DOMAIN pc : RequestUnmarshalCall(g)
    \/ \E g \in DOMAIN pc : RequestUnmarshalReturn(g)
    \/ \E g \in DOMAIN pc : ResponseUnmarshalParse(g)
    \/ \E g \in DOMAIN pc : ResponseUnmarshalCall(g)
    \/ \E g \in DOMAIN pc : ResponseUnmarshalReturn(g)

SpecShared == InitShared /\ [][NextShared]_vars

-----------------------------------------------------------------------------
(* Properties of the envelope codec *)

Done(g) == pc[g] = "done"
Given(g) == body[g].origin = "given"
GivenObject(g) == Given(g) /\ body[g].shape = "object"
Encoded(g) ==
    body[g].origin = "MarshalJSON" /\ pc[g] \in {"unmarshal", "loop", "done"}

\* the list of invocations of a Request / Response (or of its raw form)
CallsOf(type, v) == IF type = "Request" THEN v.Calls ELSE v.Responses

\* the name is served neither by the registry nor by the built-in decoder
Absent(type, name) ==
    name \notin DOMAIN registry /\ ~(type = "Response" /\ name = "error")

\* what the decoder in charge of the triplet c is to make of its arguments
Want(type, c) ==
    IF type = "Response" /\ c.name = "error" THEN c.asError
    ELSE IF c.name \notin DOMAIN registry THEN Fails
    ELSE IF registry[c.name] = "unmarshalTestArgs" THEN c.asTest
    ELSE c.asError

\* the invocation the triplet c is to be decoded into
WantInvocation(type, c) == Invocation(c.name, c.callId, Want(type, c).val)

\* a member other than the calls does not decode
MetaBad(type, m) ==
    \/ m.createdBad
    \/ type = "Request" /\ m.usingBad
    \/ type = "Response" /\ m.stateBad

\* the value a given body stands for
WantValue(g) ==
    IF body[g].shape = "null"
    THEN ValueOf(kind[g], [Using |-> <<>>, Calls |-> <<>>,
                           CreatedIDs |-> <<>>, SessionState |-> ""])
    ELSE ValueOf(kind[g],
           [Using |-> body[g].meta.using,
            Calls |-> [n \in 1..Len(body[g].calls) |->
                         WantInvocation(kind[g], body[g].calls[n])],
            CreatedIDs |-> body[g].meta.created,
            SessionState |-> body[g].meta.state])

\* C1: if Request.Unmarshal / Response.Unmarshal returns an error, every
\* field of the receiver still has the value it had before the call (and so
\* it has while the call runs); if it returns no error, every field holds the
\* value decoded from the input and nothing of the previous value remains.
C1_AtomicUnmarshal ==
    \A g \in DOMAIN pc :
        /\ pc[g] \in {"unmarshal", "loop"} => recv[g] = old[g]
        /\ (Done(g) /\ err[g] # Nil) => recv[g] = old[g]
        /\ (Done(g) /\ err[g] = Nil /\ Given(g)) => recv[g] = WantValue(g)

\* a Request.Unmarshal that failed on its second call, after the first call
\* had been decoded, and left the populated receiver as it was
C1_Witness ==
    \E g \in DOMAIN pc :
        /\ kind[g] = "Request" /\ Done(g) /\ err[g] = ErrType
        /\ Given(g) /\ body[g].calls = <<CallFoo, CallBadArg>>
        /\ raw[g].Calls = <<Invocation("NAME", "id", TestArgs("foo"))>>
        /\ recv[g] = old[g] /\ old[g].Using = <<"old">>

\* every call of the body is well formed and decodes under the decoder in
\* charge of it, and so do the other members
Decodable(g) ==
    /\ ~MetaBad(kind[g], body[g].meta)
    /\ \A n \in 1..Len(body[g].calls) :
          body[g].calls[n].wellFormed /\ Want(kind[g], body[g].calls[n]).ok

\* C2: Response.Unmarshal decodes a response named "error" with the built-in
\* method-error decoder whatever the registry holds; the result carries the
\* name "error", the call-id of the triplet and the error type of the
\* arguments; a Response holding method errors, encoded and decoded again,
\* yields the identical error values.
C2_ErrorAlwaysDecodable ==
    \A g \in DOMAIN pc :
        (kind[g] = "Response" /\ Done(g)) =>
            /\ (GivenObject(g) /\ Decodable(g)) =>
                  /\ err[g] = Nil
                  /\ \A n \in 1..Len(body[g].calls) :
                        body[g].calls[n].name = "error" =>
                            recv[g].Responses[n] =
                                Invocation("error", body[g].calls[n].callId,
                                           body[g].calls[n].asError.val)
            /\ (/\ Encoded(g)
                /\ \A n \in 1..Len(src[g].Responses) :
                      src[g].Responses[n].Name = "error") =>
                  err[g] = Nil /\ recv[g].Responses = src[g].Responses

\* the registry holds its own "error" entry, and the encoded method error
\* unknownMethod with call-id "id" was decoded back to the identical value
C2_Witness ==
    \E g \in DOMAIN pc :
        /\ kind[g] = "Response" /\ Done(g) /\ err[g] = Nil
        /\ "error" \in DOMAIN registry
        /\ registry["error"] = "unmarshalTestArgs"
        /\ Encoded(g)
        /\ src[g].Responses = <<Invocation("error", "id", ErrUnknownMethodArgs)>>
        /\ recv[g].Responses = src[g].Responses

\* C3: no step of Request.Unmarshal or Response.Unmarshal adds, removes or
\* replaces an entry of the registry, whether the decode succeeds or fails,
\* also while other decode calls that share the registry are running.
C3_RegistryNeverMutated == [][registry' = registry]_vars

\* one goroutine has decoded an "error" response with a registry that holds
\* no "error" entry while another goroutine is inside its loop
C3_Witness ==
    \E g, h \in DOMAIN pc :
        /\ g # h
        /\ kind[g] = "Response" /\ Done(g) /\ err[g] = Nil
        /\ body[g].calls = <<CallFoo, CallError>>
        /\ "error" \notin DOMAIN registry
        /\ pc[h] = "loop" /\ idx[h] = 1

\* the well-formed calls of a given body whose name nothing serves
AbsentAt(g) ==
    { n \in 1..Len(body[g].calls) :
        body[g].calls[n].wellFormed /\ Absent(kind[g], body[g].calls[n].name) }

\* the unknown-method errors
UnknownMethodErrors == { UnknownMethodError(c.name) : c \in Triplets }

\* C4 as stated: Unmarshal fails with the unknown-method error whenever the
\* name of some well-formed call is absent from the registry (and, for a
\* Response, is not "error"), and nothing is output.
C4_UnknownMethodWhenever ==
    \A g \in DOMAIN pc :
        (Done(g) /\ GivenObject(g) /\ AbsentAt(g) # {}) =>
            /\ err[g] \in { UnknownMethodError(body[g].calls[n].name) :
                              n \in AbsentAt(g) }
            /\ recv[g] = old[g]

\* C4: whenever the name of some well-formed call is absent from the
\* registry (and, for a Response, is not "error") Unmarshal fails and nothing
\* is output; the error is the unknown-method error naming the first such
\* call when the body is otherwise well formed and every call before that
\* one decodes; an unknown-method error is returned only for a body whose
\* triplets are all well formed, so it differs from the malformed-triplet
\* and non-object-arguments errors.
C4_UnknownMethodFirstFailure ==
    \A g \in DOMAIN pc :
        (Done(g) /\ GivenObject(g)) =>
            LET cs == body[g].calls
                first == CHOOSE n \in AbsentAt(g) : \A o \in AbsentAt(g) : n <= o
                wellFormed == /\ ~MetaBad(kind[g], body[g].meta)
                              /\ \A n \in 1..Len(cs) : cs[n].wellFormed
            IN /\ AbsentAt(g) # {} => (err[g] # Nil /\ recv[g] = old[g])
               /\ (/\ AbsentAt(g) # {} /\ wellFormed
                   /\ \A n \in 1..(first - 1) : Want(kind[g], cs[n]).ok) =>
                     err[g] = UnknownMethodError(cs[first].name)
               /\ err[g] \in UnknownMethodErrors =>
                     /\ wellFormed /\ AbsentAt(g) # {}
                     /\ err[g] \notin {ErrNeed3, ErrArgsObject}

\* a Request whose second call is named "unknown" was refused with the
\* unknown-method error for that name, the receiver being left alone
C4_Witness ==
    \E g \in DOMAIN pc :
        /\ kind[g] = "Request" /\ Done(g) /\ Given(g)
        /\ body[g].calls = <<CallFoo, CallUnknown>>
        /\ err[g] = UnknownMethodError("unknown")
        /\ recv[g] = old[g]

\* the triplets of the methodCalls / methodResponses member of a body text
EmittedTriplets(type, d) ==
    LET callsKey == IF type = "Request" THEN "methodCalls"
                    ELSE "methodResponses"
        hit == SelectSeq(ObjectMembers(d), LAMBDA m : m.key = callsKey)
    IN ArrayElems(hit[1].val)

\* the entries match the first Len(entries) triplets, one for one
MatchesPrefix(type, entries, cs) ==
    /\ Len(entries) <= Len(cs)
    /\ \A n \in 1..Len(entries) : entries[n] = WantInvocation(type, cs[n])

\* C5: encoding n calls emits an array of exactly n triplets, the i-th being
\* [name, args, callId] of the i-th call; decoding a body of n triplets
\* yields n entries, the i-th coming from the i-th triplet; no call is
\* dropped, duplicated or reordered in either direction.
C5_OrderPreserved ==
    \A g \in DOMAIN pc :
        /\ Encoded(g) =>
              LET ts == EmittedTriplets(kind[g], data[g])
                  cs == CallsOf(kind[g], src[g])
              IN /\ Len(ts) = Len(cs)
                 /\ \A n \in 1..Len(cs) :
                       ts[n] = ArrayText(<< <<Str(cs[n].Name)>>,
                                            MarshalArgs(cs[n].Args).out,
                                            <<Str(cs[n].CallID)>> >>)
        /\ (GivenObject(g) /\ pc[g] = "loop") =>
              /\ Len(CallsOf(kind[g], raw[g])) = idx[g] - 1
              /\ MatchesPrefix(kind[g], CallsOf(kind[g], raw[g]), body[g].calls)
        /\ (GivenObject(g) /\ Done(g) /\ err[g] = Nil) =>
              /\ Len(CallsOf(kind[g], recv[g])) = Len(body[g].calls)
              /\ MatchesPrefix(kind[g], CallsOf(kind[g], recv[g]), body[g].calls)
        /\ (Encoded(g) /\ Done(g) /\ err[g] = Nil) =>
              LET out == CallsOf(kind[g], recv[g])
                  cs == CallsOf(kind[g], src[g])
              IN /\ Len(out) = Len(cs)
                 /\ \A n \in 1..Len(cs) :
                       out[n].Name = cs[n].Name /\ out[n].CallID = cs[n].CallID

\* two different calls were encoded and decoded again in their order
C5_Witness ==
    \E g \in DOMAIN pc :
        /\ kind[g] = "Request" /\ Encoded(g) /\ Done(g) /\ err[g] = Nil
        /\ src[g].Calls = <<Invocation("NAME", "c1", TestArgs("bar")),
                            Invocation("NAME", "id", TestArgs("foo"))>>
        /\ Len(EmittedTriplets("Request", data[g])) = 2
        /\ recv[g].Calls = src[g].Calls

\* the decoder in charge of the invocation is the inverse of its encoding
Inverse(type, inv) ==
    IF type = "Response" /\ inv.Name = "error"
    THEN inv.Args.go = "MethodErrorArgs"
    ELSE /\ inv.Name \in DOMAIN registry
         /\ inv.Args.go = IF registry[inv.Name] = "unmarshalTestArgs"
                          THEN "testArgs" ELSE "MethodErrorArgs"

\* a value whose calls all have object arguments and inverse decoders
RoundTrippable(g) ==
    /\ body[g].origin = "MarshalJSON"
    /\ \A n \in 1..Len(CallsOf(kind[g], src[g])) :
          Inverse(kind[g], CallsOf(kind[g], src[g])[n])

\* C6: for a Request whose calls all have object arguments and names whose
\* registered decoder is the inverse of the argument encoding, decoding the
\* encoding reconstructs the Request: the same Using list, the same calls in
\* the same order, the same CreatedIDs; likewise for a Response with its
\* SessionState.  (The encoding exists unless a CreatedIDs value is no valid
\* Id.)
C6_EnvelopeRoundTrip ==
    \A g \in DOMAIN pc :
        RoundTrippable(g) =>
            /\ pc[g] = "failed" =>
                  \E k \in DOMAIN src[g].CreatedIDs :
                      ~IDValid(Chars(src[g].CreatedIDs[k]))
            /\ Done(g) => (err[g] = Nil /\ recv[g] = src[g])

\* a Response with two calls, one of them a method error, and a session
\* state went through encoding and decoding unchanged
C6_Witness ==
    \E g \in DOMAIN pc :
        /\ kind[g] = "Response" /\ RoundTrippable(g) /\ Done(g)
        /\ Len(src[g].Responses) = 2
        /\ src[g].Responses[1].Name = "NAME"
        /\ src[g].Responses[2].Name = "error"
        /\ src[g].SessionState = "state!"
        /\ recv[g] = src[g] /\ recv[g] # old[g]

-----------------------------------------------------------------------------
(* Inputs and calls of the identifier type *)

\* the characters an identifier of the inputs is made of
IdChars == {Ascii[i] : i \in 1..Len(Ascii)} \cup OtherChars

\* n times the character c
Rep(c, n) == [i \in 1..n |-> c]

\* identifiers: every single character, pairs and triples of characters
\* that matter to Valid and Safe, the identifiers of the tests, identifiers
\* of 254 to 256 octets and of 525 octets
IDs ==
    { <<c>> : c \in IdChars }
    \cup { <<c, d>> : c, d \in {"-", "_", "0", "9", "a", "Z", " ", "U+00E9"} }
    \cup { <<c, d, e>> : c, d, e \in {"N", "I", "L", "0", "-"} }
    \cup { Chars(t) : t \in {"", "imsafe", "iamValid0_-", "i'mnot0",
                              "im bad too0", "i'mnot valid", "NIL", "-000",
                              "000", "0aaa"} }
    \cup { Rep("A", n) : n \in {254, 255, 256, 525} }
    \cup { Rep("A", 253) \o t : t \in {<<"_", "-">>, <<"U+00E9">>, <<"0", "z", "9">>} }
    \cup { <<"a", "b", "c", "LF">>, <<"U+0661", "a">>, <<"a", "U+0661">> }

\* texts handed to ID.UnmarshalJSON
IDTexts ==
    { <<Str(t)>> : t \in {"", "abc", "imsafe", "iamValid0_-", "i'mnot0",
                          "im bad too0", "NIL", "-000", "000", "0aaa"} }
    \cup { <<Ws, Str("imsafe"), Ws>>, <<Ws, Str("i'mnot valid")>>,
           <<Null>>, <<One>>, <<LBrace, RBrace>>, <<>>, <<Str("abc"), One>> }

InitID ==
    /\ fn \in {"ID.Valid", "ID.Safe", "ID.MarshalText", "ID.UnmarshalJSON"}
    /\ arg \in IF fn = "ID.UnmarshalJSON"
               THEN { [text |-> t] : t \in IDTexts }
               ELSE { [id |-> id] : id \in IDs }
    /\ ret = Pending
    /\ NoWire /\ NoClient

CallIDValid ==
    /\ fn = "ID.Valid" /\ ret = Pending
    /\ ret' = Returned([ok |-> IDValid(arg.id)])
    /\ UNCHANGED <<fn, arg, wireVars, clientVars>>

CallIDSafe ==
    /\ fn = "ID.Safe" /\ ret = Pending
    /\ ret' = Returned([ok |-> IDSafe(arg.id)])
    /\ UNCHANGED <<fn, arg, wireVars, clientVars>>

CallIDMarshalText ==
    /\ fn = "ID.MarshalText" /\ ret = Pending
    /\ ret' = Returned(IDMarshalText(arg.id))
    /\ UNCHANGED <<fn, arg, wireVars, clientVars>>

CallIDUnmarshalJSON ==
    /\ fn = "ID.UnmarshalJSON" /\ ret = Pending
    /\ ret' = Returned(IDUnmarshalJSON(arg.text))
    /\ UNCHANGED <<fn, arg, wireVars, clientVars>>

NextID ==
    \/ CallIDValid
    \/ CallIDSafe
    \/ CallIDMarshalText
    \/ CallIDUnmarshalJSON

SpecID == InitID /\ [][NextID]_vars

-----------------------------------------------------------------------------
(* Properties of the identifier type *)

LetterChars ==
    {"A", "B", "C", "D", "E", "F", "G", "H", "I", "J", "K", "L", "M", "N", "O",
     "P", "Q", "R", "S", "T", "U", "V", "W", "X", "Y", "Z",
     "a", "b", "c", "d", "e", "f", "g", "h", "i", "j", "k", "l", "m", "n", "o",
     "p", "q", "r", "s", "t", "u", "v", "w", "x", "y", "z"}
DigitChars == {"0", "1", "2", "3", "4", "5", "6", "7", "8", "9"}

\* 1 to 255 octets, each character an ASCII letter, an ASCII digit, a hyphen
\* or an underscore
WellFormedId(id) ==
    /\ Len(Octets(id)) >= 1 /\ Len(Octets(id)) <= 255
    /\ \A i \in 1..Len(id) : id[i] \in LetterChars \cup DigitChars \cup {"-", "_"}

\* the text is one JSON string (with white space around it, if any)
IsStringText(t) == Valid(t) /\ Trim(t)[1].k = "str"

\* C11: ID.Valid() is true if and only if the identifier is 1 to 255 octets
\* long and made of ASCII letters, ASCII digits, hyphens and underscores;
\* MarshalText fails with the invalid-id error, emitting nothing, exactly on
\* the invalid identifiers and otherwise emits the identifier; UnmarshalJSON
\* of a JSON string fails with the invalid-id error exactly when the string
\* is an invalid identifier.
C11_ValidIffWellFormed ==
    ret.state = "returned" =>
        /\ fn = "ID.Valid" => (ret.ok <=> WellFormedId(arg.id))
        /\ fn = "ID.MarshalText" =>
              IF WellFormedId(arg.id)
              THEN ret.err = Nil /\ ret.out = Octets(arg.id)
              ELSE ret.err = ErrInvalidId /\ ret.out = <<>>
        /\ (fn = "ID.UnmarshalJSON" /\ IsStringText(arg.text)) =>
              IF WellFormedId(Chars(Trim(arg.text)[1].v))
              THEN ret.err = Nil /\ ret.val = Trim(arg.text)[1].v
              ELSE ret.err = ErrInvalidId

\* Valid() returned false for an identifier of 256 letters
C11_Witness ==
    /\ fn = "ID.Valid" /\ ret.state = "returned"
    /\ arg.id = Rep("A", 256) /\ ~ret.ok

\* C12: ID.Safe() is true if and only if the identifier is Valid(), does not
\* start with a hyphen or a digit and is not "NIL"; Safe() implies Valid();
\* Safe() is false for "NIL", "-000", "000", "0aaa" and true for "imsafe".
C12_SafeIff ==
    (fn = "ID.Safe" /\ ret.state = "returned") =>
        /\ ret.ok <=> /\ IDValid(arg.id)
                      /\ arg.id[1] # "-"
                      /\ arg.id[1] \notin DigitChars
                      /\ arg.id # <<"N", "I", "L">>
        /\ ret.ok => WellFormedId(arg.id)
        /\ arg.id \in {Chars("NIL"), Chars("-000"), Chars("000"), Chars("0aaa")}
              => ~ret.ok
        /\ arg.id = Chars("imsafe") => ret.ok

\* Safe() returned false for the valid identifier "0aaa"
C12_Witness ==
    /\ fn = "ID.Safe" /\ ret.state = "returned"
    /\ arg.id = Chars("0aaa") /\ IDValid(arg.id) /\ ~ret.ok

-----------------------------------------------------------------------------
(* RandomID.  arg holds the local variables of the call: id, and the buffers
   that rand.Read has filled so far. *)

\* make([]byte, 32)
RandomIDLen == 32

\* the largest number of reads of one call that is explored
MaxDraws == 3

ErrRandRead == "crypto/rand: read failed"

HexDigits ==
    <<"0", "1", "2", "3", "4", "5", "6", "7", "8", "9",
      "a", "b", "c", "d", "e", "f">>

\* hex.EncodeToString
HexEncodeToString(b) ==
    [i \in 1..(2 * Len(b)) |->
        IF i % 2 = 1
        THEN HexDigits[(b[(i + 1) \div 2] \div 16) + 1]
        ELSE HexDigits[(b[i \div 2] % 16) + 1]]

\* buffers that a successful rand.Read leaves in b: the first byte decides
\* the first character of the text, the others are filled alike
RandomBuffers ==
    { <<first>> \o Rep(fill, RandomIDLen - 1) :
        first \in {0, 10, 153, 160, 255}, fill \in {0, 171} }

\* the loop test, with a test that forgets Safe
RandomIDContinues_ValidOnly(id) == ~IDValid(id)
\* for !(id.Valid() && id.Safe())
RandomIDContinues(id) == ~(IDValid(id) /\ IDSafe(id))

InitRandomID ==
    /\ fn = "RandomID"
    /\ arg = [id |-> <<>>, draws |-> <<>>]
    /\ ret = Pending
    /\ NoWire /\ NoClient

\* one iteration whose rand.Read fails: return "", err
RandomIDReadFails ==
    /\ fn = "RandomID" /\ ret = Pending
    /\ RandomIDContinues(arg.id)
    /\ Len(arg.draws) < MaxDraws
    /\ ret' = Returned([id |-> <<>>, err |-> ErrRandRead])
    /\ UNCHANGED <<fn, arg, wireVars, clientVars>>

\* one iteration whose rand.Read fills b: id = ID(hex.EncodeToString(b))
RandomIDRead ==
    /\ fn = "RandomID" /\ ret = Pending
    /\ RandomIDContinues(arg.id)
    /\ Len(arg.draws) < MaxDraws
    /\ \E b \in RandomBuffers :
          arg' = [id |-> HexEncodeToString(b), draws |-> Append(arg.draws, b)]
    /\ UNCHANGED <<fn, ret, wireVars, clientVars>>

\* the loop test fails: return id, nil
RandomIDReturn ==
    /\ fn = "RandomID" /\ ret = Pending
    /\ ~RandomIDContinues(arg.id)
    /\ ret' = Returned([id |-> arg.id, err |-> Nil])
    /\ UNCHANGED <<fn, arg, wireVars, clientVars>>

NextRandomID ==
    \/ RandomIDReadFails
    \/ RandomIDRead
    \/ RandomIDReturn

SpecRandomID == InitRandomID /\ [][NextRandomID]_vars

\* the text of the k-th buffer drawn
DrawText(k) == HexEncodeToString(arg.draws[k])

\* C13: RandomID returns, without error, only an identifier that is Valid()
\* and Safe(): the hexadecimal text (64 characters) of the 32 bytes drawn
\* last; every earlier draw of the call gave a text starting with a digit, so
\* the call ends at the first draw whose text starts with a letter; when the
\* random source fails the call returns the empty identifier and the error.
C13_RandomIDSafe ==
    /\ \A k \in 1..(Len(arg.draws) - 1) : DrawText(k)[1] \in DigitChars
    /\ \A k \in 1..Len(arg.draws) : Len(arg.draws[k]) = 32
    /\ ret.state = "returned" =>
          IF ret.err = Nil
          THEN /\ IDValid(ret.id) /\ IDSafe(ret.id)
               /\ Len(arg.draws) >= 1
               /\ ret.id = DrawText(Len(arg.draws))
               /\ Len(ret.id) = 64
               /\ ret.id[1] \in {"a", "b", "c", "d", "e", "f"}
          ELSE /\ ret.id = <<>> /\ ret.err = ErrRandRead
               /\ \A k \in 1..Len(arg.draws) : DrawText(k)[1] \in DigitChars

\* the call returned the text of its third draw, the first one to start with
\* a letter
C13_Witness ==
    /\ fn = "RandomID" /\ ret.state = "returned" /\ ret.err = Nil
    /\ Len(arg.draws) = 3
    /\ DrawText(1)[1] = "0" /\ DrawText(2)[1] = "9" /\ ret.id[1] = "f"

-----------------------------------------------------------------------------
(* Date and UTCDate.  A time.Time is modelled by the instant it denotes (day:
   days since 1970-01-01 UTC, sod: second of that day, nsec: nanoseconds) and
   the offset, in seconds east of UTC, of its location. *)

Time(day, sod, nsec, off) == [day |-> day, sod |-> sod, nsec |-> nsec, off |-> off]

\* Time.UTC(): the same instant with the location UTC
TimeUTC(t) == [t EXCEPT !.off = 0]

\* days from 0001-01-01 to 1970-01-01
DaysToUnixEpoch == 719162

\* the years completed at the n-th day of a cycle of four centuries or of
\* four years: n -= n >> 2
CutCycles(n) == n - (n \div 4)

\* absDate: year and day of the year (from 0) of a day number
AbsDate(day) ==
    With(day + DaysToUnixEpoch, LAMBDA d0 :
    With(d0 - 146097 * (d0 \div 146097), LAMBDA d1 :
    With(CutCycles(d1 \div 36524), LAMBDA n100 :
    With(d1 - 36524 * n100, LAMBDA d2 :
    With(d2 - 1461 * (d2 \div 1461), LAMBDA d3 :
    With(CutCycles(d3 \div 365), LAMBDA n1 :
        [year |-> 400 * (d0 \div 146097) + 100 * n100 + 4 * (d2 \div 1461) + n1 + 1,
         yday |-> d3 - 365 * n1]))))))

IsLeap(year) == year % 4 = 0 /\ (year % 100 # 0 \/ year % 400 = 0)

\* daysBefore[m]: days of a non-leap year before month m + 1
DaysBefore == <<0, 31, 59, 90, 120, 151, 181, 212, 243, 273, 304, 334, 365>>

\* month and day of the month of day yd (from 0) of a non-leap year
MonthDay(yd) ==
    With(yd \div 31, LAMBDA m0 :
        IF yd >= DaysBefore[m0 + 2]
        THEN [month |-> m0 + 2, mday |-> yd - DaysBefore[m0 + 2] + 1]
        ELSE [month |-> m0 + 1, mday |-> yd - DaysBefore[m0 + 1] + 1])

\* Time.Date(): year, month, day of a day number
CivilDate(day) ==
    With(AbsDate(day), LAMBDA a :
        IF IsLeap(a.year) /\ a.yday = 59
        THEN [year |-> a.year, month |-> 2, mday |-> 29]
        ELSE With(MonthDay(IF IsLeap(a.year) /\ a.yday > 59
                           THEN a.yday - 1 ELSE a.yday),
                  LAMBDA md : [year |-> a.year, month |-> md.month, mday |-> md.mday]))

DecDigits == <<"0", "1", "2", "3", "4", "5", "6", "7", "8", "9">>

RECURSIVE UintText(_)
\* the decimal digits of a natural number
UintText(u) ==
    IF u < 10 THEN <<DecDigits[u + 1]>>
    ELSE Append(UintText(u \div 10), DecDigits[(u % 10) + 1])

\* appendInt: a sign if negative, then the digits padded with zeros to width
AppendInt(x, width) ==
    With(UintText(IF x < 0 THEN -x ELSE x), LAMBDA ds :
        (IF x < 0 THEN <<"-">> ELSE <<>>)
        \o Rep("0", IF Len(ds) < width THEN width - Len(ds) ELSE 0) \o ds)

\* the element "Z07:00" of a layout
AppendZone(offset) ==
    IF offset = 0 THEN <<"Z">>
    ELSE With(IF offset < 0 THEN (-offset) \div 60 ELSE offset \div 60, LAMBDA zone :
            <<IF offset < 0 THEN "-" ELSE "+">>
            \o AppendInt(zone \div 60, 2) \o <<":">> \o AppendInt(zone % 60, 2))

\* Time.AppendFormat(b, time.RFC3339): layout "2006-01-02T15:04:05Z07:00",
\* the fields being those of the instant in the location of t
AppendFormatRFC3339(t) ==
    With(t.sod + t.off, LAMBDA s :
    With(CivilDate(t.day + (s \div 86400)), LAMBDA c :
    With(s % 86400, LAMBDA ls :
        AppendInt(c.year, 4) \o <<"-">> \o AppendInt(c.month, 2) \o <<"-">>
        \o AppendInt(c.mday, 2) \o <<"T">> \o AppendInt(ls \div 3600, 2) \o <<":">>
        \o AppendInt((ls % 3600) \div 60, 2) \o <<":">> \o AppendInt(ls % 60, 2)
        \o AppendZone(t.off))))

\* UTCDate.MarshalText without the conversion
UTCDateMarshalText_NoUTC(d) == [err |-> Nil, out |-> AppendFormatRFC3339(d)]
\* UTCDate.MarshalText
UTCDateMarshalText(d) == [err |-> Nil, out |-> AppendFormatRFC3339(TimeUTC(d))]

\* *time.ParseError, whatever its message
ErrTimeParse == "parsing time: ParseError"

DigitVal(c) == CHOOSE i \in 0..9 : DecDigits[i + 1] = c

\* isDigit(s, i), i counted from 1
IsDigitAt(s, i) == i <= Len(s) /\ s[i] \in DigitChars

Drop(s, n) == SubSeq(s, n + 1, Len(s))

\* getnum: a number of one or two digits, of two digits if fixed
GetNum(s, fixed) ==
    IF ~IsDigitAt(s, 1) THEN [ok |-> FALSE, n |-> 0, rest |-> s]
    ELSE IF ~IsDigitAt(s, 2)
         THEN IF fixed THEN [ok |-> FALSE, n |-> 0, rest |-> s]
              ELSE [ok |-> TRUE, n |-> DigitVal(s[1]), rest |-> Drop(s, 1)]
    ELSE [ok |-> TRUE, n |-> 10 * DigitVal(s[1]) + DigitVal(s[2]), rest |-> Drop(s, 2)]

\* the elements of the layout time.RFC3339, "2006-01-02T15:04:05Z07:00"
LayoutRFC3339 ==
    <<"2006", "-", "01", "-", "02", "T", "15", ":", "04", ":", "05", "Z07:00">>

\* no zone offset was parsed
NoZone == -1

\* the variables of time.parse when it starts on value
ParseStart(value) ==
    [err |-> Nil, rest |-> value, year |-> 0, month |-> 1, mday |-> 1,
     hour |-> 0, min |-> 0, sec |-> 0, nsec |-> 0, z |-> FALSE, zoneOffset |-> NoZone]

ParseBad(p) == [p EXCEPT !.err = ErrTimeParse]

\* the field of two digits at most: its value must lie in lo..hi
ParseField(p, fixed, lo, hi, put(_, _)) ==
    With(GetNum(p.rest, fixed), LAMBDA g :
        IF ~g.ok \/ g.n < lo \/ g.n > hi THEN ParseBad(p)
        ELSE [put(p, g.n) EXCEPT !.rest = g.rest])

\* the number of digits that follow the separator of a fraction
RECURSIVE FracDigits(_, _)
FracDigits(s, n) == IF IsDigitAt(s, n + 1) THEN FracDigits(s, n + 1) ELSE n

RECURSIVE Pow10(_)
Pow10(n) == IF n = 0 THEN 1 ELSE 10 * Pow10(n - 1)

RECURSIVE Atoi(_)
\* the value of a sequence of digits
Atoi(s) ==
    IF s = <<>> THEN 0 ELSE 10 * Atoi(SubSeq(s, 1, Len(s) - 1)) + DigitVal(s[Len(s)])

\* parseNanoseconds(value, n): value[1:n] are digits, at most nine are used
ParseNanoseconds(s, n) ==
    With(IF n > 10 THEN 10 ELSE n, LAMBDA m :
        Atoi(SubSeq(s, 2, m)) * Pow10(10 - m))

\* stdZeroSecond: two digits, then a fraction of a second is accepted even
\* though the layout has none
ParseSecond(p) ==
    With(ParseField(p, TRUE, 0, 59, LAMBDA q, n : [q EXCEPT !.sec = n]), LAMBDA q :
        IF q.err = Nil /\ Len(q.rest) >= 2 /\ q.rest[1] \in {".", ","}
           /\ IsDigitAt(q.rest, 2)
        THEN With(FracDigits(q.rest, 2), LAMBDA n :
                [q EXCEPT !.nsec = ParseNanoseconds(q.rest, n),
                          !.rest = Drop(q.rest, n)])
        ELSE q)

\* stdISO8601ColonTZ: "Z", or a sign, two digits, a colon and two digits
ParseZone(p) ==
    IF Len(p.rest) >= 1 /\ p.rest[1] = "Z"
    THEN [p EXCEPT !.z = TRUE, !.rest = Drop(p.rest, 1)]
    ELSE IF Len(p.rest) < 6 \/ p.rest[4] # ":" THEN ParseBad(p)
    ELSE With(GetNum(SubSeq(p.rest, 2, 3), TRUE), LAMBDA hr :
         With(GetNum(SubSeq(p.rest, 5, 6), TRUE), LAMBDA mm :
            IF ~hr.ok \/ ~mm.ok \/ p.rest[1] \notin {"+", "-"} THEN ParseBad(p)
            ELSE [p EXCEPT !.rest = Drop(p.rest, 6),
                           !.zoneOffset = IF p.rest[1] = "-"
                                          THEN -((hr.n * 60 + mm.n) * 60)
                                          ELSE (hr.n * 60 + mm.n) * 60]))

\* one element of the layout applied to what is left of the value
ParseElement(p, std) ==
    IF p.err # Nil THEN p
    ELSE CASE std = "2006" ->
                IF Len(p.rest) >= 4 /\ \A i \in 1..4 : IsDigitAt(p.rest, i)
                THEN [p EXCEPT !.year = Atoi(SubSeq(p.rest, 1, 4)),
                               !.rest = Drop(p.rest, 4)]
                ELSE ParseBad(p)
           [] std = "01" ->
                ParseField(p, TRUE, 1, 12, LAMBDA q, n : [q EXCEPT !.month = n])
           [] std = "02" ->
                ParseField(p, TRUE, 0, 99, LAMBDA q, n : [q EXCEPT !.mday = n])
           [] std = "15" ->
                ParseField(p, FALSE, 0, 23, LAMBDA q, n : [q EXCEPT !.hour = n])
           [] std = "04" ->
                ParseField(p, TRUE, 0, 59, LAMBDA q, n : [q EXCEPT !.min = n])
           [] std = "05" -> ParseSecond(p)
           [] std = "Z07:00" -> ParseZone(p)
           [] OTHER ->
                IF Len(p.rest) >= 1 /\ p.rest[1] = std
                THEN [p EXCEPT !.rest = Drop(p.rest, 1)]
                ELSE ParseBad(p)

RECURSIVE ParseLayout(_, _)
\* the loop of time.parse over the elements of the layout, from the i-th
ParseLayout(p, i) ==
    IF i > Len(LayoutRFC3339) THEN p
    ELSE ParseLayout(ParseElement(p, LayoutRFC3339[i]), i + 1)

\* daysIn(month, year)
DaysIn(month, year) ==
    IF month = 2 /\ IsLeap(year) THEN 29
    ELSE DaysBefore[month + 1] - DaysBefore[month]

\* the day number of a date: daysSinceEpoch(year), the days before the month
\* and the days before the day
DateDays(year, month, mday) ==
    With(year - 1, LAMBDA y :
        146097 * (y \div 400) + 36524 * ((y % 400) \div 100)
        + 1461 * ((y % 100) \div 4) + 365 * (y % 4)
        + DaysBefore[month] + (IF IsLeap(year) /\ month >= 3 THEN 1 ELSE 0)
        + (mday - 1) - DaysToUnixEpoch)

\* the Time of parsed fields that are the wall clock at offset off
TimeAt(p, off) ==
    With(p.hour * 3600 + p.min * 60 + p.sec - off, LAMBDA s :
        Time(DateDays(p.year, p.month, p.mday) + (s \div 86400), s % 86400, p.nsec, off))

\* time.Time{}: 0001-01-01T00:00:00Z
ZeroTime == Time(-DaysToUnixEpoch, 0, 0, 0)

\* time.ParseInLocation(time.RFC3339, value, loc), loc having the offset
\* locOff at every instant: text after the layout and a day that the month
\* does not have are errors; a zone offset in the text decides the instant
\* and the location of the result, loc being used for a text without zone
ParseInLocationRFC3339(value, locOff) ==
    With(ParseLayout(ParseStart(value), 1), LAMBDA p :
        IF p.err # Nil \/ p.rest # <<>> \/ p.mday < 1
           \/ p.mday > DaysIn(p.month, p.year)
        THEN [err |-> ErrTimeParse, t |-> ZeroTime]
        ELSE IF p.z THEN [err |-> Nil, t |-> TimeAt(p, 0)]
        ELSE IF p.zoneOffset # NoZone THEN [err |-> Nil, t |-> TimeAt(p, p.zoneOffset)]
        ELSE [err |-> Nil, t |-> TimeAt(p, locOff)])
\* the text of a JSON string without escapes
JSONQuote(s) == <<"\"">> \o s \o <<"\"">>

\* json.Unmarshal(data, &s) for a string s: the data being null, a JSON string
\* without escapes, a number, or no JSON text
UnmarshalStringChars(text) ==
    IF text = <<"n", "u", "l", "l">> THEN [err |-> Nil, val |-> <<>>]
    ELSE IF /\ Len(text) >= 2 /\ text[1] = "\"" /\ text[Len(text)] = "\""
            /\ \A i \in 2..(Len(text) - 1) :
                  /\ \E k \in 1..Len(Ascii) : Ascii[k] = text[i]
                  /\ text[i] \notin {"\"", "\\"}
         THEN [err |-> Nil, val |-> SubSeq(text, 2, Len(text) - 1)]
    ELSE IF text # <<>> /\ text[1] \in (DigitChars \ {"0"})
            /\ \A i \in 1..Len(text) : text[i] \in DigitChars
         THEN [err |-> ErrType, val |-> <<>>]
    ELSE [err |-> ErrSyntax, val |-> <<>>]

\* UTCDate.UnmarshalJSON: val is the receiver after the call, prior being
\* its value before
UTCDateUnmarshalJSON(text, prior) ==
    With(UnmarshalStringChars(text), LAMBDA s :
        IF s.err # Nil THEN [err |-> s.err, val |-> prior]
        ELSE With(ParseInLocationRFC3339(s.val, 0), LAMBDA r :
                [err |-> r.err, val |-> r.t]))

-----------------------------------------------------------------------------
(* Inputs and calls of UTCDate *)

\* instants: around the epoch, a leap day, the ends of years, the years 0,
\* 1, 9999 and the days next to them
TimeDays == {0, -1, 59, 11016, 18261, 18262, 47541, 2932896, 2932897, -719162, -719528, -719529}
TimeSeconds == {0, 1, 3599, 43200, 86399}
TimeNanos == {0, 500000000, 999999999}
\* offsets of locations: UTC, +02:00, -05:30, +14:00, -12:00, and 30 seconds
TimeOffsets == {0, 7200, -19800, 50400, -43200, 30}

Times ==
    { Time(d, s, n, o) : d \in TimeDays, s \in TimeSeconds, n \in TimeNanos,
                         o \in TimeOffsets }

DateParts ==
    {<<"2", "0", "2", "0", "-", "0", "1", "-", "0", "1">>,
     <<"2", "0", "2", "0", "-", "0", "2", "-", "2", "9">>,
     <<"2", "0", "1", "9", "-", "0", "2", "-", "2", "9">>,
     <<"2", "0", "2", "0", "-", "1", "3", "-", "0", "1">>,
     <<"2", "0", "2", "0", "-", "1", "-", "0", "1">>,
     <<"0", "0", "0", "0", "-", "1", "2", "-", "3", "1">>}
ClockParts ==
    {<<"0", "0", ":", "0", "0", ":", "0", "0">>,
     <<"2", "3", ":", "5", "9", ":", "5", "9">>,
     <<"7", ":", "0", "5", ":", "0", "9">>,
     <<"2", "4", ":", "0", "0", ":", "0", "0">>,
     <<"1", "2", ":", "3", "0", ":", "5">>}
FractionParts ==
    {<<>>,
     <<".", "5">>,
     <<".", "1", "2", "3", "4", "5", "6", "7", "8", "9">>}
ZoneParts ==
    {<<"Z">>,
     <<"+", "0", "0", ":", "0", "0">>,
     <<"-", "0", "0", ":", "0", "0">>,
     <<"+", "0", "2", ":", "0", "0">>,
     <<"-", "0", "5", ":", "3", "0">>,
     <<"+", "1", "4", ":", "0", "0">>,
     <<>>,
     <<"z">>,
     <<"+", "0", "2", "0", "0">>,
     <<"Z", "x">>}

\* the JSON texts handed to UnmarshalJSON: strings made of the parts, and
\* texts that are no timestamp or no string
UTCDateTexts ==
    { JSONQuote(d \o <<"T">> \o c \o f \o z) :
        d \in DateParts, c \in ClockParts, f \in FractionParts, z \in ZoneParts }
    \cup { JSONQuote(<<>>), JSONQuote(<<"2", "0", "2", "0">>),
           <<"n", "u", "l", "l">>, <<"1", "2">>, <<"\"", "Z">>, <<>> }

InitUTCDate ==
    /\ fn \in {"UTCDate.MarshalText", "UTCDate.UnmarshalJSON"}
    /\ arg \in IF fn = "UTCDate.MarshalText"
               THEN { [d |-> t] : t \in Times }
               ELSE { [data |-> x, prior |-> Time(18262, 0, 0, 7200)] : x \in UTCDateTexts }
    /\ ret = Pending
    /\ NoWire /\ NoClient

CallUTCDateMarshalText ==
    /\ fn = "UTCDate.MarshalText" /\ ret = Pending
    /\ ret' = Returned(UTCDateMarshalText(arg.d))
    /\ UNCHANGED <<fn, arg, wireVars, clientVars>>

CallUTCDateUnmarshalJSON ==
    /\ fn = "UTCDate.UnmarshalJSON" /\ ret = Pending
    /\ ret' = Returned(UTCDateUnmarshalJSON(arg.data, arg.prior))
    /\ UNCHANGED <<fn, arg, wireVars, clientVars>>

NextUTCDate ==
    \/ CallUTCDateMarshalText
    \/ CallUTCDateUnmarshalJSON

SpecUTCDate == InitUTCDate /\ [][NextUTCDate]_vars

-----------------------------------------------------------------------------
(* Properties of UTCDate *)

\* the day number of a date of the proleptic Gregorian calendar, counted in
\* years that begin in March
DaysFromCivil(y, m, d) ==
    With(IF m <= 2 THEN y - 1 ELSE y, LAMBDA yy :
    With(yy - 400 * (yy \div 400), LAMBDA yoe :
        146097 * (yy \div 400) + 365 * yoe + (yoe \div 4) - (yoe \div 100)
        + ((153 * (IF m > 2 THEN m - 3 ELSE m + 9) + 2) \div 5) + (d - 1) - 719468))

\* the number written by a sign, if any, and digits
SignedVal(s) == IF s[1] = "-" THEN -Atoi(Drop(s, 1)) ELSE Atoi(s)

\* text is year-month-dayThour:minute:secondZ and denotes second sod of day
\* number day, the fields read from the end of the text
DenotesUTC(text, day, sod) ==
    With(Len(text), LAMBDA n :
        /\ n >= 20
        /\ text[n] = "Z"
        /\ text[n - 3] = ":" /\ text[n - 6] = ":" /\ text[n - 9] = "T"
        /\ text[n - 12] = "-" /\ text[n - 15] = "-"
        /\ \A i \in {1, 2, 4, 5, 7, 8, 10, 11, 13, 14} : text[n - i] \in DigitChars
        /\ \A i \in 2..(n - 16) : text[i] \in DigitChars
        /\ text[1] \in DigitChars \cup {"-"}
        /\ sod = 3600 * Atoi(SubSeq(text, n - 8, n - 7))
                 + 60 * Atoi(SubSeq(text, n - 5, n - 4)) + Atoi(SubSeq(text, n - 2, n - 1))
        /\ day = DaysFromCivil(SignedVal(SubSeq(text, 1, n - 16)),
                               Atoi(SubSeq(text, n - 14, n - 13)),
                               Atoi(SubSeq(text, n - 11, n - 10))))

\* C14: UTCDate.MarshalText never fails; for every timestamp and every offset
\* of its location the text ends in Z and its fields, read as UTC, denote the
\* instant of the timestamp (to the whole second: the format has no
\* fraction), whatever the offset.
C14_EncodeUTC ==
    (fn = "UTCDate.MarshalText" /\ ret.state = "returned") =>
        /\ ret.err = Nil
        /\ ret.out[Len(ret.out)] = "Z"
        /\ DenotesUTC(ret.out, arg.d.day, arg.d.sod)

\* a timestamp of a location at offset -05:30, 2019-12-31T18:30:01.5-05:30,
\* was written as 2020-01-01T00:00:01Z
C14_Witness ==
    /\ fn = "UTCDate.MarshalText" /\ ret.state = "returned"
    /\ arg.d = Time(18262, 1, 500000000, -19800)
    /\ ret.out = <<"2", "0", "2", "0", "-", "0", "1", "-", "0", "1", "T",
                   "0", "0", ":", "0", "0", ":", "0", "1", "Z">>

\* s ends with the characters suf
HasSuffix(s, suf) ==
    Len(s) >= Len(suf) /\ SubSeq(s, Len(s) - Len(suf) + 1, Len(s)) = suf

\* the JSON string ends with an offset that denotes UTC: Z, +00:00 or -00:00
OffsetDenotesUTC(text) ==
    \E z \in {<<"Z">>, <<"+", "0", "0", ":", "0", "0">>, <<"-", "0", "0", ":", "0", "0">>} :
        HasSuffix(text, z \o <<"\"">>)

\* C15: UTCDate.UnmarshalJSON succeeds only when the offset of the input
\* text denotes UTC; a well-formed RFC 3339 text with another offset, such as
\* +02:00, makes the call fail.
C15_DecodeOnlyUTC ==
    (fn = "UTCDate.UnmarshalJSON" /\ ret.state = "returned" /\ ret.err = Nil)
        => OffsetDenotesUTC(arg.data)

-----------------------------------------------------------------------------
(* RequestError: the problem details object of a failed request *)

\* type RequestError struct { Type; Title; Status; Detail; Instance; Properties }
RequestError(t, title, status, detail, instance, p) ==
    [go |-> "RequestError", Type |-> t, Title |-> title, Status |-> status,
     Detail |-> detail, Instance |-> instance, Properties |-> p]

\* the int 0
IntZero == Int64Of(FALSE, Zero3)

\* RequestError{}
ZeroRequestError == RequestError("", "", IntZero, "", "", <<>>)

\* the names of the fixed fields of a RequestError on the wire
RequestErrorKeys == {"type", "title", "status", "detail", "instance"}

\* the field of re that the struct decode stores member m into; st = [saved, val]
RequestErrorField(st, m) ==
    IF KeyIs(m.key, "type")
    THEN With(UnmarshalString(m.val, st.val.Type), LAMBDA r :
            [saved |-> FirstErr(st.saved, r.err), val |-> [st.val EXCEPT !.Type = r.val]])
    ELSE IF KeyIs(m.key, "title")
    THEN With(UnmarshalString(m.val, st.val.Title), LAMBDA r :
            [saved |-> FirstErr(st.saved, r.err), val |-> [st.val EXCEPT !.Title = r.val]])
    ELSE IF KeyIs(m.key, "status")
    THEN With(UnmarshalInt64(m.val, st.val.Status), LAMBDA r :
            [saved |-> FirstErr(st.saved, r.err), val |-> [st.val EXCEPT !.Status = r.val]])
    ELSE IF KeyIs(m.key, "detail")
    THEN With(UnmarshalString(m.val, st.val.Detail), LAMBDA r :
            [saved |-> FirstErr(st.saved, r.err), val |-> [st.val EXCEPT !.Detail = r.val]])
    ELSE IF KeyIs(m.key, "instance")
    THEN With(UnmarshalString(m.val, st.val.Instance), LAMBDA r :
            [saved |-> FirstErr(st.saved, r.err), val |-> [st.val EXCEPT !.Instance = r.val]])
    ELSE st

RECURSIVE RequestErrorMembers(_, _, _)
\* json.Unmarshal(data, (*requestError)(re)): the members from the k-th on
\* stored into the tagged fields; Properties has the tag "-"
RequestErrorMembers(ms, k, st) ==
    IF k > Len(ms) THEN st
    ELSE RequestErrorMembers(ms, k + 1, RequestErrorField(st, ms[k]))

\* the bag without the entries under the names in ks; nil when nothing is left
DeleteKeys(props, ks) == [k \in DOMAIN props \ ks |-> props[k]]

\* func (re *RequestError) UnmarshalJSON(data []byte) error, on an object
\* text; returns the error and the receiver as the call leaves it
RequestErrorUnmarshalJSON(re, d) ==
    IF ~Valid(d) THEN [err |-> ErrSyntax, val |-> re]
    ELSE With(ObjectMembers(Trim(d)), LAMBDA ms :
         With(RequestErrorMembers(ms, 1, [saved |-> Nil, val |-> re]), LAMBDA st :
             IF st.saved # Nil THEN [err |-> st.saved, val |-> st.val]
             ELSE With(PutMembers(ms, 1, st.val.Properties), LAMBDA props :
                 IF "type" \notin DOMAIN props
                 THEN [err |-> ErrMissingType,
                       val |-> [st.val EXCEPT !.Properties = props]]
                 ELSE [err |-> Nil,
                       val |-> [st.val EXCEPT !.Properties =
                                   DeleteKeys(props, RequestErrorKeys)]])))

\* the entries that MarshalJSON puts over those of the bag: a fixed field
\* that is not zero
RequestErrorFixed(re) ==
    (IF re.Type # "" THEN "type" :> <<Str(re.Type)>> ELSE <<>>)
    @@ (IF re.Title # "" THEN "title" :> <<Str(re.Title)>> ELSE <<>>)
    @@ (IF re.Status # IntZero THEN "status" :> FormatInt(re.Status) ELSE <<>>)
    @@ (IF re.Detail # "" THEN "detail" :> <<Str(re.Detail)>> ELSE <<>>)
    @@ (IF re.Instance # "" THEN "instance" :> <<Str(re.Instance)>> ELSE <<>>)

\* func (re RequestError) MarshalJSON() ([]byte, error): json.Marshal of the
\* map allProps, whose keys are written in sorted order
RequestErrorMarshalJSON(re) ==
    With(RequestErrorFixed(re) @@ re.Properties, LAMBDA allProps :
        With(SortedKeys(allProps), LAMBDA keys :
            [err |-> Nil,
             out |-> ObjectText([n \in 1..Len(keys) |->
                                   Member(keys[n], allProps[keys[n]])])]))

-----------------------------------------------------------------------------
(* Inputs and calls of the error objects *)

\* the literal 400
Num400 == Num(Lit(FALSE, <<4, 0, 0>>))

\* members an error object is made of: the fixed fields with values of the
\* right and of a wrong type, keys differing from them in case, keys of the
\* bag, and a key that occurs twice
ErrorMemberPool ==
    << Member("type", <<Null>>),
       Member("type", <<Str("serverFail")>>),
       Member("Type", <<Str("limit")>>),
       Member("title", <<Str("T")>>),
       Member("Title", <<Str("T2")>>),
       Member("Title", <<One>>),
       Member("status", <<Num400>>),
       Member("status", <<Str("400")>>),
       Member("detail", <<Str("d")>>),
       Member("instance", <<Str("i")>>),
       Member("limit", <<Str("maxSizeRequest")>>),
       Member("Properties", ObjectText(<<Member("abc", <<Str("b")>>)>>)),
       Member("properties", <<Str("x")>>),
       Member("title", <<Str("T3")>>) >>

\* the largest number of members of an input object
MaxMembers == 3

\* the object made of the members of the pool at the positions in S, in order
ErrorObject(S) ==
    ObjectText(SelectSeq(ErrorMemberPool,
                         LAMBDA m : \E i \in S : ErrorMemberPool[i] = m))

\* requestErr and requestLimitErr of the tests, with their white space
RequestErrTexts ==
    { <<LBrace, Ws, Str("type"), Colon, Ws, Str("urn:ietf:params:jmap:error:unknownCapability"),
        Comma, Ws, Str("status"), Colon, Ws, Num400, Comma, Ws,
        Str("detail"), Colon, Ws, Str("The request object used capability"), Ws, RBrace>>,
      <<LBrace, Ws, Str("type"), Colon, Ws, Str("urn:ietf:params:jmap:error:limit"),
        Comma, Ws, Str("limit"), Colon, Ws, Str("maxSizeRequest"), Comma, Ws,
        Str("status"), Colon, Ws, Num400, Comma, Ws,
        Str("detail"), Colon, Ws, Str("The request is larger"), Ws, RBrace>> }

ErrorTexts ==
    { ErrorObject(S) : S \in { T \in SUBSET (1..Len(ErrorMemberPool)) :
                                 Cardinality(T) <= MaxMembers } }
    \cup RequestErrTexts

\* the bags of the values that are encoded
ErrorBags ==
    { <<>>,
      "limit" :> <<Str("maxSizeRequest")>>,
      "title" :> <<Str("B")>>,
      ("type" :> <<Str("B")>>) @@ ("status" :> <<Str("s")>>),
      ("detail" :> <<Null>>) @@ ("instance" :> <<One>>) @@ ("limit" :> <<One>>) }

RequestErrors ==
    { RequestError(t, title, status, detail, instance, p) :
        t \in {"", "urn:ietf:params:jmap:error:limit"}, title \in {"", "T"},
        status \in {IntZero, Int64Of(FALSE, <<0, 0, 400>>)},
        detail \in {"", "something is broken, yay!"}, instance \in {"", "i"},
        p \in ErrorBags }

InitError ==
    /\ fn \in {"RequestError.UnmarshalJSON", "MethodErrorArgs.UnmarshalJSONArgs",
               "RequestError.MarshalJSON"}
    /\ arg \in IF fn = "RequestError.MarshalJSON"
               THEN { [re |-> e] : e \in RequestErrors }
               ELSE { [text |-> t] : t \in ErrorTexts }
    /\ ret = Pending
    /\ NoWire /\ NoClient

\* errObj := RequestError{}; json.Unmarshal(text, &errObj)
CallRequestErrorUnmarshalJSON ==
    /\ fn = "RequestError.UnmarshalJSON" /\ ret = Pending
    /\ ret' = Returned(RequestErrorUnmarshalJSON(ZeroRequestError, arg.text))
    /\ UNCHANGED <<fn, arg, wireVars, clientVars>>

\* res := MethodErrorArgs{}; res.UnmarshalJSONArgs(text)
CallMethodErrorArgsUnmarshalJSONArgs ==
    /\ fn = "MethodErrorArgs.UnmarshalJSONArgs" /\ ret = Pending
    /\ ret' = Returned(UnmarshalMethodErrorArgs(arg.text))
    /\ UNCHANGED <<fn, arg, wireVars, clientVars>>

CallRequestErrorMarshalJSON ==
    /\ fn = "RequestError.MarshalJSON" /\ ret = Pending
    /\ ret' = Returned(RequestErrorMarshalJSON(arg.re))
    /\ UNCHANGED <<fn, arg, wireVars, clientVars>>

NextError ==
    \/ CallRequestErrorUnmarshalJSON
    \/ CallMethodErrorArgsUnmarshalJSONArgs
    \/ CallRequestErrorMarshalJSON

SpecError == InitError /\ [][NextError]_vars

-----------------------------------------------------------------------------
(* Properties of the error objects *)

\* the top-level keys of an object text
KeysOf(ms) == { ms[i].key : i \in 1..Len(ms) }

\* the value of the last member with the key
LastVal(ms, key) ==
    Compact(ms[CHOOSE i \in 1..Len(ms) :
                  ms[i].key = key /\ \A j \in (i + 1)..Len(ms) : ms[j].key # key].val)

\* the string under the key; the empty string without the key
StringAt(ms, key) ==
    IF key \in KeysOf(ms) /\ LastVal(ms, key)[1].k = "str"
    THEN LastVal(ms, key)[1].v ELSE ""

\* the integer under the key; 0 without the key
IntAt(ms, key) ==
    IF key \in KeysOf(ms) /\ LastVal(ms, key)[1].k = "num"
    THEN ParseInt(LastVal(ms, key)[1].n).val ELSE IntZero

\* every member under the name of a fixed field has a value of its type:
\* a string, for status an integer
WellTyped(ms, strings, ints) ==
    \A i \in 1..Len(ms) :
        /\ ms[i].key \in strings => ms[i].val[1].k = "str"
        /\ ms[i].key \in ints => ms[i].val[1].k = "num" /\ ParseInt(ms[i].val[1].n).ok

\* the members of the object that was decoded
Decoding == ObjectMembers(Trim(arg.text))

\* C16: decoding a RequestError or a MethodError whose fixed fields are well
\* typed fails if and only if the top-level key "type" is absent; an object
\* with a type, "serverFail" included, decodes.
C16_FailsIffNoType ==
    /\ (fn = "RequestError.UnmarshalJSON" /\ ret.state = "returned"
        /\ WellTyped(Decoding, RequestErrorKeys \ {"status"}, {"status"}))
          => (ret.err # Nil <=> "type" \notin KeysOf(Decoding))
    /\ (fn = "MethodErrorArgs.UnmarshalJSONArgs" /\ ret.state = "returned"
        /\ WellTyped(Decoding, {"type"}, {}))
          => (ret.err # Nil <=> "type" \notin KeysOf(Decoding))

\* C17: after a successful decode of a RequestError the fixed fields hold the
\* values of the keys type, title, status, detail and instance and the bag
\* holds exactly the other top-level keys with their values; after a
\* successful decode of a MethodError the bag holds exactly the top-level
\* keys other than type.
C17_BagHoldsTheRest ==
    /\ (fn = "RequestError.UnmarshalJSON" /\ ret.state = "returned" /\ ret.err = Nil)
          => /\ ret.val.Type = StringAt(Decoding, "type")
             /\ ret.val.Title = StringAt(Decoding, "title")
             /\ ret.val.Status = IntAt(Decoding, "status")
             /\ ret.val.Detail = StringAt(Decoding, "detail")
             /\ ret.val.Instance = StringAt(Decoding, "instance")
             /\ DOMAIN ret.val.Properties = KeysOf(Decoding) \ RequestErrorKeys
             /\ \A k \in DOMAIN ret.val.Properties :
                    ret.val.Properties[k] = LastVal(Decoding, k)
    /\ (fn = "MethodErrorArgs.UnmarshalJSONArgs" /\ ret.state = "returned"
        /\ ret.err = Nil)
          => /\ ret.val.Type = StringAt(Decoding, "type")
             /\ DOMAIN ret.val.Properties = KeysOf(Decoding) \ {"type"}
             /\ \A k \in DOMAIN ret.val.Properties :
                    ret.val.Properties[k] = LastVal(Decoding, k)

\* the fixed fields of a value that are not zero, by their names on the wire
NonZeroFixed(re) ==
    { k \in RequestErrorKeys :
        CASE k = "type" -> re.Type # ""
          [] k = "title" -> re.Title # ""
          [] k = "status" -> re.Status # IntZero
          [] k = "detail" -> re.Detail # ""
          [] OTHER -> re.Instance # "" }

\* the text of a fixed field
FixedText(re, k) ==
    CASE k = "type" -> <<Str(re.Type)>>
      [] k = "title" -> <<Str(re.Title)>>
      [] k = "status" -> FormatInt(re.Status)
      [] k = "detail" -> <<Str(re.Detail)>>
      [] OTHER -> <<Str(re.Instance)>>

\* C18: RequestError.MarshalJSON gives one flat object: every entry of the
\* bag under another name than a fixed field's, and each fixed field that is
\* not zero with its own value, whatever the bag holds under its name; a
\* fixed field that is zero is omitted; no key occurs twice.
C18_FixedOverBag ==
    (fn = "RequestError.MarshalJSON" /\ ret.state = "returned") =>
        /\ ret.err = Nil /\ Valid(ret.out)
        /\ With(ObjectMembers(ret.out), LAMBDA ms :
            /\ KeysOf(ms) = (DOMAIN arg.re.Properties \ RequestErrorKeys)
                            \cup NonZeroFixed(arg.re)
            /\ Len(ms) = Cardinality(KeysOf(ms))
            /\ \A i \in 1..Len(ms) :
                  ms[i].val = IF ms[i].key \in RequestErrorKeys
                              THEN FixedText(arg.re, ms[i].key)
                              ELSE arg.re.Properties[ms[i].key])

-----------------------------------------------------------------------------
(* JSON pointers (RFC 6901).  Pointers, keys and names are sequences of
   characters. *)

ErrInvalidPointerSyntax == "invalid json pointer syntax"
ErrNoPointerValue == "no pointer value"

RECURSIVE JsonPtrTokenEnd(_, _)
\* the repetition (([^/~])|(~[01]))* applied at position i: the position of
\* the last character it takes, i - 1 if it takes none
JsonPtrTokenEnd(path, i) ==
    IF i > Len(path) THEN i - 1
    ELSE IF path[i] \notin {"/", "~"} THEN JsonPtrTokenEnd(path, i + 1)
    ELSE IF path[i] = "~" /\ i < Len(path) /\ path[i + 1] \in {"0", "1"}
         THEN JsonPtrTokenEnd(path, i + 2)
    ELSE i - 1

RECURSIVE JsonPtrFindAll(_, _)
\* jsonPtrRegexp.FindAllString(path, -1), the search being at position i:
\* the regexp (/(([^/~])|(~[01]))*) is not anchored, so a match begins at
\* every slash that the match before it has not taken
JsonPtrFindAll(path, i) ==
    IF i > Len(path) THEN <<>>
    ELSE IF path[i] = "/"
         THEN <<SubSeq(path, i, JsonPtrTokenEnd(path, i + 1))>>
              \o JsonPtrFindAll(path, JsonPtrTokenEnd(path, i + 1) + 1)
    ELSE JsonPtrFindAll(path, i + 1)

\* jsonPtrRegexp.Match([]byte(path)): some part of path matches
JsonPtrMatch(path) == \E i \in 1..Len(path) : path[i] = "/"

RECURSIVE Replace(_, _, _)
\* strings.Replace(s, o, <<n>>, -1) for an o of two characters
Replace(s, o, n) ==
    IF Len(s) < 2 THEN s
    ELSE IF SubSeq(s, 1, 2) = o THEN <<n>> \o Replace(Drop(s, 2), o, n)
    ELSE <<s[1]>> \o Replace(Drop(s, 1), o, n)

\* the two replacements in the other order
Unescape_TildeFirst(p) == Replace(Replace(p, <<"~", "0">>, "~"), <<"~", "1">>, "/")
\* p = strings.Replace(p, "~1", "/", -1); p = strings.Replace(p, "~0", "~", -1)
Unescape(p) == Replace(Replace(p, <<"~", "1">>, "/"), <<"~", "0">>, "~")

\* a Go value: kind is its reflect.Kind ("nil" for the nil interface), num
\* and str the value of a number and of a string, elems the entries of a map
\* ([key, val]), the elements of a slice ([val]), the fields of a struct
\* ([key: the name, tag: the json tag, val]) or what a pointer points to
GoValue(k, num, str, elems) == [kind |-> k, num |-> num, str |-> str, elems |-> elems]
Entry(key, tag, val) == [key |-> key, tag |-> tag, val |-> val]
GoNil == GoValue("nil", 0, "", <<>>)
GoFloat(n) == GoValue("float64", n, "", <<>>)
GoString(s) == GoValue("string", 0, s, <<>>)
GoMap(es) == GoValue("map", 0, "", es)
GoSlice(vs) == GoValue("slice", 0, "", [i \in 1..Len(vs) |-> Entry(<<>>, <<>>, vs[i])])
GoStruct(fs) == GoValue("struct", 0, "", fs)
GoPtr(v) == GoValue("ptr", 0, "", <<Entry(<<>>, <<>>, v)>>)

\* a JSONObject: nil, or a jsonPtrWrapper of a value
NilObject == [nil |-> TRUE, value |-> GoNil]
Wrapper(v) == [nil |-> FALSE, value |-> v]
\* the call did not return
PanicObject == [nil |-> TRUE, value |-> GoValue("panic", 0, "", <<>>)]

\* strconv.Atoi: an optional sign and decimal digits; a number of more than
\* nine digits is taken as 10^9, more than any length
StrconvAtoi(s) ==
    With(IF s # <<>> /\ s[1] \in {"+", "-"} THEN Drop(s, 1) ELSE s, LAMBDA ds :
        IF ds = <<>> \/ \E i \in 1..Len(ds) : ds[i] \notin DigitChars
        THEN [ok |-> FALSE, n |-> 0]
        ELSE With(IF Len(ds) > 9 THEN 1000000000 ELSE Atoi(ds), LAMBDA n :
                [ok |-> TRUE, n |-> IF s[1] = "-" THEN -n ELSE n]))

RECURSIVE Elem(_)
\* for v.Kind() == reflect.Ptr { v = v.Elem() }
Elem(v) ==
    IF v.kind # "ptr" THEN v
    ELSE IF v.elems = <<>> THEN GoNil
    ELSE Elem(v.elems[1].val)

\* strings.Split(tag, ",")[0]
TagName(tag) ==
    IF \E i \in 1..Len(tag) : tag[i] = ","
    THEN SubSeq(tag, 1, (CHOOSE i \in 1..Len(tag) :
                            tag[i] = "," /\ \A j \in 1..(i - 1) : tag[j] # ",") - 1)
    ELSE tag

\* the field is exported (its name begins with an upper-case letter, those
\* of ASCII being the ones considered) and its name, or the name in its
\* json tag, is key
FieldIs(f, key) ==
    /\ f.key # <<>> /\ DecodeRune(Utf8(f.key[1]), 1).r \in 65..90
    /\ \/ f.key = key
       \/ f.tag # <<>> /\ TagName(f.tag) = key

\* the smallest position of es whose entry satisfies Test, 0 if there is none
First(es, Test(_)) ==
    IF \E i \in 1..Len(es) : Test(es[i])
    THEN CHOOSE i \in 1..Len(es) : Test(es[i]) /\ \A j \in 1..(i - 1) : ~Test(es[j])
    ELSE 0

\* the object at position i of es, nil for position 0
At(es, i) == IF i = 0 THEN NilObject ELSE Wrapper(es[i].val)

\* func (j *jsonPtrWrapper) Get(key string) JSONObject
JsonPtrWrapperGet(value, key) ==
    With(Elem(value), LAMBDA v :
        CASE v.kind = "map" ->
                At(v.elems, First(v.elems, LAMBDA e : e.key = key))
          [] v.kind = "slice" ->
                With(StrconvAtoi(key), LAMBDA a :
                    IF ~a.ok THEN NilObject
                    ELSE IF a.n >= Len(v.elems) THEN NilObject
                    ELSE IF a.n < 0 THEN PanicObject
                    ELSE Wrapper(v.elems[a.n + 1].val))
          [] v.kind = "struct" ->
                At(v.elems, First(v.elems, LAMBDA f : FieldIs(f, key)))
          [] OTHER -> NilObject)

-----------------------------------------------------------------------------
(* GetJSON.  ret holds the local variables of the call between its steps:
   parts, the position k of the range loop, the object o, and gets, the keys
   handed to Get so far. *)

\* if p[0] == '/' { p = p[1:] }
TrimSlash(p) == IF p[1] = "/" THEN Drop(p, 1) ELSE p

\* the document of TestJSONPointer, decoded into a map[string]interface{}
TestDocument ==
    GoMap(<< Entry(<<"f", "o", "o">>, <<>>, GoSlice(<<GoString("bar"), GoString("baz")>>)),
             Entry(<<>>, <<>>, GoFloat(0)),
             Entry(<<"a", "/", "b">>, <<>>, GoFloat(1)),
             Entry(<<"c", "%", "d">>, <<>>, GoFloat(2)),
             Entry(<<"e", "^", "f">>, <<>>, GoFloat(3)),
             Entry(<<"g", "|", "h">>, <<>>, GoFloat(4)),
             Entry(<<"i", "\\", "j">>, <<>>, GoFloat(5)),
             Entry(<<"k", "\"", "l">>, <<>>, GoFloat(6)),
             Entry(<<" ">>, <<>>, GoFloat(7)),
             Entry(<<"m", "~", "n">>, <<>>, GoFloat(8)) >>)

\* the struct of TestJSONPointer: F1 `json:"foo"`, F2 `json:"a/b"`
TestStruct ==
    GoStruct(<< Entry(<<"F", "1">>, <<"f", "o", "o">>, GoSlice(<<GoString("bar"), GoString("baz")>>)),
                Entry(<<"F", "2">>, <<"a", "/", "b">>, GoFloat(1)) >>)

\* a map with keys that hold a slash, a tilde or an escape sequence
EscapeDocument ==
    GoMap(<< Entry(<<"a", "/", "b">>, <<>>, GoFloat(1)),
             Entry(<<"m", "~", "n">>, <<>>, GoFloat(8)),
             Entry(<<"~", "1">>, <<>>, GoFloat(10)),
             Entry(<<"/">>, <<>>, GoFloat(11)),
             Entry(<<"a">>, <<>>, GoFloat(12)),
             Entry(<<"~", "0">>, <<>>, GoFloat(13)),
             Entry(<<"~">>, <<>>, GoFloat(14)),
             Entry(<<"a", "~", "2", "b">>, <<>>, GoFloat(15)),
             Entry(<<"b">>, <<>>, GoFloat(16)) >>)

\* a slice holding a string, a map with a nil value and a pointer to a struct
NestedDocument ==
    GoSlice(<< GoString("bar"),
               GoMap(<< Entry(<<"a">>, <<>>, GoNil) >>),
               GoPtr(TestStruct) >>)

\* struct { A float64 `json:"x"`; B float64 `json:"A,omitempty"`; c float64 }
\* and the same fields declared in the other order
NameIsTagStruct ==
    GoStruct(<< Entry(<<"A">>, <<"x">>, GoFloat(1)),
                Entry(<<"B">>, <<"A", ",", "o", "m", "i", "t", "e", "m", "p", "t", "y">>, GoFloat(2)),
                Entry(<<"c">>, <<>>, GoFloat(3)) >>)
TagIsNameStruct ==
    GoStruct(<< Entry(<<"c">>, <<>>, GoFloat(3)),
                Entry(<<"B">>, <<"A", ",", "o", "m", "i", "t", "e", "m", "p", "t", "y">>, GoFloat(2)),
                Entry(<<"A">>, <<"x">>, GoFloat(1)) >>)

Documents ==
    {TestDocument, TestStruct, EscapeDocument, NestedDocument,
     GoMap(<< Entry(<<"p">>, <<>>, GoPtr(EscapeDocument)) >>), GoFloat(5),
     NameIsTagStruct, TagIsNameStruct}

\* the pointers of the tests, pointers with escapes, pointers that do not
\* follow the grammar, and pointers into slices and structs
Pointers ==
    {<<"/", "f", "o", "o">>, <<"/", "f", "o", "o", "/", "0">>, <<"/">>,
     <<"/", "a", "~", "1", "b">>, <<"/", "c", "%", "d">>,
     <<"/", "e", "^", "f">>, <<"/", "g", "|", "h">>, <<"/", "i", "\\", "j">>,
     <<"/", "k", "\"", "l">>, <<"/", " ">>, <<"/", "m", "~", "0", "n">>,
     <<"/", "~", "0", "1">>, <<"/", "~", "1">>, <<"/", "~", "0">>,
     <<"/", "~", "1", "0">>, <<"/", "a", "~", "2", "b">>, <<"a", "/", "b">>,
     <<"a">>, <<>>, <<"~">>, <<"/", "~">>, <<"/", "a", "~">>,
     <<"/", "a", "~", "2", "b", "/", "0">>, <<"/", "f", "o", "o", "/", "2">>,
     <<"/", "f", "o", "o", "/", "-", "1">>, <<"/", "f", "o", "o", "/", "x">>,
     <<"/", "f", "o", "o", "/", "0", "/", "x">>, <<"/", "1", "/", "a">>,
     <<"/", "F", "1">>, <<"/", "F", "1", "/", "1">>, <<"/", "/">>,
     <<"/", "a", "/", "b">>, <<"f", "o", "o", "/", "0">>,
     <<"/", "p", "/", "a">>, <<"/", "f", "o", "o", "/", "+", "1">>,
     <<"/", "f", "o", "o", "/", "0", "1">>, <<"/", "f", "o", "o", "/", "1">>,
     <<"/", "A">>, <<"/", "x">>, <<"/", "B">>, <<"/", "2", "/", "F", "2">>}

InitGetJSON ==
    /\ fn = "GetJSON"
    /\ arg \in { [path |-> p, object |-> d] : p \in Pointers, d \in Documents }
    /\ ret = Pending
    /\ NoWire /\ NoClient

\* the outcome of the call
GetJSONReturned(e, v, parts, gets) ==
    Returned([err |-> e, val |-> v, parts |-> parts, gets |-> gets])

\* if !jsonPtrRegexp.Match([]byte(path)) { return nil, ErrInvalidPointerSyntax }
GetJSONInvalid ==
    /\ fn = "GetJSON" /\ ret = Pending
    /\ ~JsonPtrMatch(arg.path)
    /\ ret' = GetJSONReturned(ErrInvalidPointerSyntax, GoNil, <<>>, <<>>)
    /\ UNCHANGED <<fn, arg, wireVars, clientVars>>

\* o = &jsonPtrWrapper{...}; parts := jsonPtrRegexp.FindAllString(path, -1)
GetJSONParts ==
    /\ fn = "GetJSON" /\ ret = Pending
    /\ JsonPtrMatch(arg.path)
    /\ ret' = [state |-> "resolving", parts |-> JsonPtrFindAll(arg.path, 1),
               k |-> 1, o |-> Wrapper(arg.object), gets |-> <<>>]
    /\ UNCHANGED <<fn, arg, wireVars, clientVars>>

\* one iteration of the loop over parts, o not being nil: o = o.Get(p)
GetJSONGet ==
    /\ fn = "GetJSON" /\ ret.state = "resolving"
    /\ ret.k <= Len(ret.parts) /\ ~ret.o.nil
    /\ With(TrimSlash(Unescape(ret.parts[ret.k])), LAMBDA p :
       With(JsonPtrWrapperGet(ret.o.value, p), LAMBDA o :
          ret' = IF o = PanicObject
                 THEN GetJSONReturned(Panic, GoNil, ret.parts, Append(ret.gets, p))
                 ELSE [ret EXCEPT !.k = @ + 1, !.o = o, !.gets = Append(@, p)]))
    /\ UNCHANGED <<fn, arg, wireVars, clientVars>>

\* o == nil, in the loop or after it: return nil, ErrNoPointerValue
GetJSONNoValue ==
    /\ fn = "GetJSON" /\ ret.state = "resolving"
    /\ ret.o.nil
    /\ ret' = GetJSONReturned(ErrNoPointerValue, GoNil, ret.parts, ret.gets)
    /\ UNCHANGED <<fn, arg, wireVars, clientVars>>

\* after the loop: return o.Interface(), nil
GetJSONReturn ==
    /\ fn = "GetJSON" /\ ret.state = "resolving"
    /\ ret.k > Len(ret.parts) /\ ~ret.o.nil
    /\ ret' = GetJSONReturned(Nil, ret.o.value, ret.parts, ret.gets)
    /\ UNCHANGED <<fn, arg, wireVars, clientVars>>

NextGetJSON ==
    \/ GetJSONInvalid
    \/ GetJSONParts
    \/ GetJSONGet
    \/ GetJSONNoValue
    \/ GetJSONReturn

SpecGetJSON == InitGetJSON /\ [][NextGetJSON]_vars

-----------------------------------------------------------------------------
(* Properties of GetJSON *)

RECURSIVE ReferenceToken(_)
\* the key that a reference token of RFC 6901 denotes: ~0 stands for a
\* tilde and ~1 for a slash, read from left to right
ReferenceToken(tok) ==
    IF tok = <<>> THEN <<>>
    ELSE IF Len(tok) >= 2 /\ tok[1] = "~" /\ tok[2] = "0"
         THEN <<"~">> \o ReferenceToken(Drop(tok, 2))
    ELSE IF Len(tok) >= 2 /\ tok[1] = "~" /\ tok[2] = "1"
         THEN <<"/">> \o ReferenceToken(Drop(tok, 2))
    ELSE <<tok[1]>> \o ReferenceToken(Drop(tok, 1))

\* the call on the document with escapes and the pointer p has returned
ResolvedEscape(p) ==
    /\ fn = "GetJSON" /\ ret.state = "returned"
    /\ arg.object = EscapeDocument /\ arg.path = p

\* C19: every key that GetJSON hands to Get is its pointer segment with ~1
\* replaced by a slash and then ~0 by a tilde, which is the key the segment
\* denotes; over a map holding "a/b": 1, "m~n": 8, "~1": 10 and "/": 11 the
\* pointer /a~1b resolves to 1, /m~0n to 8 and /~01 to 10, the value under
\* the key "~1".
C19_UnescapeOrder ==
    /\ (fn = "GetJSON" /\ ret.state # "pending") =>
          \A i \in 1..Len(ret.gets) :
              ret.gets[i] = ReferenceToken(Drop(ret.parts[i], 1))
    /\ ResolvedEscape(<<"/", "a", "~", "1", "b">>) => ret.err = Nil /\ ret.val = GoFloat(1)
    /\ ResolvedEscape(<<"/", "m", "~", "0", "n">>) => ret.err = Nil /\ ret.val = GoFloat(8)
    /\ ResolvedEscape(<<"/", "~", "0", "1">>) =>
          ret.err = Nil /\ ret.val = GoFloat(10) /\ ret.gets = <<<<"~", "1">>>>

\* /~01 was resolved over the map that has the keys "~1" and "/"
C19_Witness ==
    ResolvedEscape(<<"/", "~", "0", "1">>) /\ ret.val = GoFloat(10)

\* the grammar of RFC 6901: the empty pointer, or a pointer that begins with
\* a slash and in which every tilde is followed by 0 or 1
ValidPointer(path) ==
    \/ path = <<>>
    \/ /\ path[1] = "/"
       /\ \A i \in 1..Len(path) :
             path[i] = "~" => i < Len(path) /\ path[i + 1] \in {"0", "1"}

\* C20: a pointer that does not match the grammar of RFC 6901 in full yields
\* the invalid-pointer-syntax error, and no part of it is resolved against
\* the value.
C20_SyntaxCheckedFirst ==
    (fn = "GetJSON" /\ ret.state # "pending" /\ ~ValidPointer(arg.path)) =>
        /\ ret.state = "returned"
        /\ ret.err = ErrInvalidPointerSyntax
        /\ ret.gets = <<>>

\* C21: the empty pointer resolves to the root value: GetJSON("", v) returns
\* v itself and no error, for every value v.
C21_EmptyPointerIsRoot ==
    (fn = "GetJSON" /\ ret.state = "returned" /\ arg.path = <<>>) =>
        ret.err = Nil /\ ret.val = arg.object

\* the call is about to apply the next segment to a value of the kind k
Applying(k) ==
    /\ fn = "GetJSON" /\ ret.state = "resolving"
    /\ ret.k <= Len(ret.parts) /\ ~ret.o.nil
    /\ Elem(ret.o.value).kind = k

\* the key that the segment about to be applied denotes
Segment == ReferenceToken(Drop(ret.parts[ret.k], 1))

\* C22: a segment applied to a sequence of length n resolves to element i if
\* and only if it is the decimal text of a natural number i < n; every other
\* segment (an index of n or more, a negative number, no number) gives the
\* no-value result, never a crash.
C22_SequenceIndex ==
    [][Applying("slice") =>
         With(Elem(ret.o.value).elems, LAMBDA es :
            IF \E i \in 0..(Len(es) - 1) : Segment = UintText(i)
            THEN /\ ret'.state = "resolving"
                 /\ \E i \in 0..(Len(es) - 1) :
                       Segment = UintText(i) /\ ret'.o = Wrapper(es[i + 1].val)
            ELSE ret'.state = "resolving" /\ ret'.o = NilObject)]_vars

\* the keys that the segments of the pointer path denote, in order: the
\* pieces that follow each slash of the pointer, read as of RFC 6901
Segments(path) ==
    With({i \in 1..Len(path) : path[i] = "/"}, LAMBDA S :
        [n \in 1..Cardinality(S) |->
            With(CHOOSE i \in S : Cardinality({j \in S : j < i}) = n - 1, LAMBDA i :
            With(IF \E j \in S : j > i
                 THEN CHOOSE j \in S : j > i /\ \A l \in S : l > i => l >= j
                 ELSE Len(path) + 1, LAMBDA e :
                ReferenceToken(SubSeq(path, i + 1, e - 1))))])

RECURSIVE ResolveFrom(_, _, _)
\* the segments segs applied in order from position j to the object o, up to
\* the first one that does not resolve: the object reached and the number of
\* segments applied
ResolveFrom(o, segs, j) ==
    IF j > Len(segs) \/ o.nil THEN [o |-> o, used |-> j - 1]
    ELSE ResolveFrom(JsonPtrWrapperGet(o.value, segs[j]), segs, j + 1)

\* the call has returned and its pointer begins with a slash
ReturnedPointer ==
    fn = "GetJSON" /\ ret.state = "returned" /\ arg.path # <<>> /\ arg.path[1] = "/"

\* C23: GetJSON applies the segments of the pointer in order; as soon as one
\* does not resolve it reports the no-value error without applying any
\* segment after it, and it returns a value only if every segment resolved,
\* the value being the one reached by applying all of them.
C23_StopsAtFirstFailure ==
    ReturnedPointer =>
        With(Segments(arg.path), LAMBDA segs :
        With(ResolveFrom(Wrapper(arg.object), segs, 1), LAMBDA r :
            /\ ret.gets = SubSeq(segs, 1, r.used)
            /\ IF r.o.nil
               THEN ret.err = ErrNoPointerValue
               ELSE ret.err = Nil /\ ret.val = r.o.value))

\* the field f is exported
Exported(f) == f.key # <<>> /\ DecodeRune(Utf8(f.key[1]), 1).r \in 65..90

\* C25: a segment applied to a struct selects the exported field whose json
\* tag names the segment; the Go name of a field is used only when no field
\* has that tag name, whatever the order in which the fields are declared.
C25_WireNameFirst ==
    [][Applying("struct") =>
         With(Elem(ret.o.value).elems, LAMBDA fs :
            /\ ret'.state = "resolving"
            /\ IF \E i \in 1..Len(fs) : Exported(fs[i]) /\ TagName(fs[i].tag) = Segment
               THEN ret'.o = At(fs, First(fs, LAMBDA f :
                                   Exported(f) /\ TagName(f.tag) = Segment))
               ELSE ret'.o = At(fs, First(fs, LAMBDA f :
                                   Exported(f) /\ f.key = Segment)))]_vars

-----------------------------------------------------------------------------
(* The order of the structural validation and the lookups *)

\* the positions of the malformed triplets of a given body
MalformedAt(g) == { n \in 1..Len(body[g].calls) : ~body[g].calls[n].wellFormed }

\* the error rawInvocation.UnmarshalJSON reports for the first malformed
\* triplet of the body
StructuralError(g) ==
    RawInvocationUnmarshalJSON(ZeroRawInvocation,
        body[g].calls[CHOOSE n \in MalformedAt(g) :
                         \A o \in MalformedAt(g) : n <= o].text).err

\* no lookup has been made and no argument decoder has run
NothingDecoded(g) ==
    /\ pc[g] # "loop" /\ idx[g] = 0
    /\ raw[g] = IF kind[g] = "Request" THEN ZeroRawRequest ELSE ZeroRawResponse

-----------------------------------------------------------------------------
(* Batch: the helper that builds a Request call by call.  batch holds the
   request under construction, the method called last, the value it
   returned and the argument of NthCallID. *)

\* the largest number of calls and of capabilities added to a batch
MaxAdds == 11
MaxUses == 1

\* strconv.Itoa(n)
StrconvItoa(n) == IF n < 0 THEN <<"-">> \o UintText(-n) ELSE UintText(n)

\* NextCallID numbering the calls from 1
BatchNextCallID_OneBased(r) == StrconvItoa(Len(r.Calls) + 1)

\* func (b *Batch) NextCallID() string
BatchNextCallID(r) == StrconvItoa(Len(r.Calls))

\* func (b *Batch) NthCallID(n int) string
BatchNthCallID(n) == StrconvItoa(n - 1)

\* the method names, arguments and capabilities handed to the batch
MethodNames == {"Core/echo"}
BatchArgs == {"{}", "{\"a\":1}"}
Capabilities == {"urn:ietf:params:jmap:core", "urn:ietf:params:jmap:mail"}

\* the value a Batch method left behind: the request, the method, the text
\* returned (empty when the method returns nothing) and the argument n
BatchState(r, method, out, n) == [req |-> r, fn |-> method, out |-> out, n |-> n]

\* a Batch with an empty request
InitBatch ==
    /\ NoCall /\ NoWire
    /\ Session = <<>> /\ SessionLck = <<>> /\ goroutine = <<>>
    /\ sent = <<>> /\ fetched = 0 /\ crashed = FALSE
    /\ batch = BatchState([Using |-> <<>>, Calls |-> <<>>], "", <<>>, 0)

CallBatchNextCallID ==
    /\ batch' = BatchState(batch.req, "NextCallID", BatchNextCallID(batch.req), 0)
    /\ UNCHANGED <<pureVars, wireVars, Session, SessionLck, goroutine, sent, fetched, crashed>>

CallBatchNthCallID(n) ==
    /\ batch' = BatchState(batch.req, "NthCallID", BatchNthCallID(n), n)
    /\ UNCHANGED <<pureVars, wireVars, Session, SessionLck, goroutine, sent, fetched, crashed>>

\* b.req.Using = append(b.req.Using, capability)
BatchUse(capability) ==
    /\ Len(batch.req.Using) < MaxUses
    /\ batch' = BatchState([batch.req EXCEPT !.Using = Append(@, capability)],
                           "Use", <<>>, 0)
    /\ UNCHANGED <<pureVars, wireVars, Session, SessionLck, goroutine, sent, fetched, crashed>>

\* b.req.Calls = append(b.req.Calls, jmap.Invocation{Name: methodName,
\*     CallID: b.NextCallID(), Args: args})
BatchAdd(methodName, args) ==
    /\ Len(batch.req.Calls) < MaxAdds
    /\ batch' = BatchState([batch.req EXCEPT !.Calls =
                               Append(@, Invocation(methodName,
                                                    BatchNextCallID(batch.req), args))],
                           "Add", <<>>, 0)
    /\ UNCHANGED <<pureVars, wireVars, Session, SessionLck, goroutine, sent, fetched, crashed>>

NextBatch ==
    \/ CallBatchNextCallID
    \/ \E n \in 0..(MaxAdds + 1) : CallBatchNthCallID(n)
    \/ \E capability \in Capabilities : BatchUse(capability)
    \* the arguments vary for the first call only
    \/ \E methodName \in MethodNames :
          \E args \in IF batch.req.Calls = <<>> THEN BatchArgs ELSE {"{}"} :
              BatchAdd(methodName, args)

SpecBatch == InitBatch /\ [][NextBatch]_vars

\* the text is the decimal text of the integer n: digits without a leading
\* zero, after a minus sign for a negative n, that read back as n
DecimalTextOf(text, n) ==
    With(IF n < 0 THEN Drop(text, 1) ELSE text, LAMBDA ds :
        /\ n < 0 => (text # <<>> /\ text[1] = "-")
        /\ ds # <<>> /\ \A i \in 1..Len(ds) : ds[i] \in DigitChars
        /\ Len(ds) > 1 => ds[1] # "0"
        /\ Atoi(ds) = (IF n < 0 THEN -n ELSE n))

-----------------------------------------------------------------------------
(* The client: the cached Session, its lock, and goroutines that call
   UpdateSession or RawSend on one Client whose SessionEndpoint is set.
   Each goroutine is [fn, calls, pc, session, held, snapshot, ret, err]:
   the method it called and the number of calls of its request, its
   position, the local session of UpdateSession, the number of read locks
   it holds, the Session that lazyInitSession returned, the *Session that
   UpdateSession returned, and the error of the method ("pending" before
   the return).  The goroutines being interchangeable, they are listed in
   the order of the number of calls of their requests. *)

\* the number of goroutines and the largest number of calls in a request
Goroutines == 2
MaxRequestCalls == 2

ErrDo == "http: request failed"
ErrHTTPStatus == "HTTP 500 Internal Server Error"
ErrNoCoreCapability == "jmap: urn:ietf:params:jmap:core capability object is missing"
\* jmap.RequestError{Type: jmap.ProblemPrefix + "limit",
\*     Properties: map[string]interface{}{"limit": "maxCallsInRequest"}}
ErrLimit == "urn:ietf:params:jmap:error:limit limit=maxCallsInRequest"

\* a nil *jmap.Session, and the zero jmap.Session
NoSession == [id |-> 0, MaxCallsInRequest |-> 0, complete |-> FALSE]
\* the session object number id, decoded in full or in part
SessionObject(id, limit, complete) ==
    [id |-> id, MaxCallsInRequest |-> limit, complete |-> complete]

\* the bodies a session endpoint answers with: null, an object without the
\* core capability, and objects whose core capability holds a limit
SessionBody(shape, core, limit) == [shape |-> shape, core |-> core, limit |-> limit]
Limits == {1, 2}
SessionBodies ==
    {SessionBody("null", FALSE, 0), SessionBody("object", FALSE, 0)}
    \cup {SessionBody("object", TRUE, l) : l \in Limits}

\* what c.HTTPClient.Do returns: an error, or a status and a body
SessionReplies ==
    {[err |-> ErrDo, status |-> 0, body |-> SessionBody("null", FALSE, 0)],
     [err |-> Nil, status |-> 500, body |-> SessionBody("null", FALSE, 0)]}
    \cup {[err |-> Nil, status |-> 200, body |-> b] : b \in SessionBodies}

\* func (s *Session) UnmarshalJSON(data []byte) error, on the session
\* object number id: for null the pointer raw is set to nil and
\* raw.Capabilities panics; otherwise the fields other than CoreCapability
\* are stored first
SessionUnmarshalJSON(d, id) ==
    IF d.shape = "null"
    THEN [err |-> Panic, session |-> SessionObject(id, 0, FALSE)]
    ELSE IF ~d.core
    THEN [err |-> ErrNoCoreCapability, session |-> SessionObject(id, 0, FALSE)]
    ELSE [err |-> Nil, session |-> SessionObject(id, d.limit, TRUE)]

\* sync.RWMutex: the number of read locks held and the goroutine holding
\* the write lock (0 when none)
Unlocked == [readers |-> 0, writer |-> 0]

Goroutine(method, n, at) ==
    [fn |-> method, calls |-> n, pc |-> at, session |-> NoSession, held |-> 0,
     snapshot |-> NoSession, ret |-> NoSession, err |-> "pending"]

InitClient ==
    /\ NoCall /\ NoWire /\ batch = <<>>
    /\ Session = NoSession
    /\ SessionLck = Unlocked
    /\ goroutine \in { f \in [1..Goroutines ->
                              {Goroutine("UpdateSession", 0, "Do")}
                              \cup {Goroutine("RawSend", n, "RLock") :
                                       n \in 1..MaxRequestCalls}] :
                          \A g \in 1..(Goroutines - 1) : f[g].calls <= f[g + 1].calls }
    /\ sent = <<>>
    /\ fetched = 0
    /\ crashed = FALSE

\* the goroutine g is at the position at of a running process
Running(g, at) == ~crashed /\ goroutine[g].pc = at

\* the goroutine g goes on as the record next
Goes(g, next) == goroutine' = [goroutine EXCEPT ![g] = next]

\* the frame of the client's steps
ClientFrame == <<pureVars, wireVars, batch>>

\* sync.RWMutex.RUnlock by the goroutine g, which goes on as next: a fatal
\* error ends the process when no read lock is held, otherwise the number
\* of read locks held drops by one, whoever acquired them
RUnlock(g, next) ==
    IF SessionLck.readers = 0
    THEN crashed' = TRUE /\ UNCHANGED <<SessionLck, goroutine>>
    ELSE /\ SessionLck' = [SessionLck EXCEPT !.readers = @ - 1]
         /\ Goes(g, [next EXCEPT !.held = @ - 1])
         /\ UNCHANGED crashed

\* sync.RWMutex.RLock by the goroutine g, which goes on as next
RLock(g, next) ==
    /\ SessionLck.writer = 0
    /\ SessionLck' = [SessionLck EXCEPT !.readers = @ + 1]
    /\ Goes(g, [next EXCEPT !.held = @ + 1])

\* UpdateSession returns (s, e) to its caller: to the goroutine's own call,
\* or to lazyInitSession, which drops s (if _, err := c.UpdateSession()),
\* returns jmap.Session{}, err on an error and goes on to its second RLock
\* otherwise; the local session of UpdateSession is gone then
UpdateSessionReturn(gr, s, e) ==
    IF gr.fn = "UpdateSession" THEN [gr EXCEPT !.pc = "done", !.ret = s, !.err = e]
    ELSE IF e # Nil THEN [gr EXCEPT !.pc = "deferred", !.session = NoSession, !.err = e]
    ELSE [gr EXCEPT !.pc = "RLock2", !.session = NoSession]

\* UpdateSession going on to store the session whatever Decode returned
UpdateSessionDecoded_StoresAnyway(gr, d) ==
    [gr EXCEPT !.session = d.session, !.pc = "Lock"]

\* if err := json.NewDecoder(resp.Body).Decode(&session); err != nil {
\*     return nil, err }
UpdateSessionDecoded(gr, d) ==
    IF d.err # Nil THEN UpdateSessionReturn(gr, NoSession, d.err)
    ELSE [gr EXCEPT !.session = d.session, !.pc = "Lock"]

\* UpdateSession up to c.SessionLck.Lock(): the request, the status test
\* and the decoding of the body into the local session
UpdateSessionDo(g, reply) ==
    /\ Running(g, "Do")
    /\ IF reply.err # Nil
       THEN /\ Goes(g, UpdateSessionReturn(goroutine[g], NoSession, reply.err))
            /\ UNCHANGED <<fetched, crashed>>
       ELSE IF reply.status \div 100 # 2
       THEN /\ Goes(g, UpdateSessionReturn(goroutine[g], NoSession, ErrHTTPStatus))
            /\ UNCHANGED <<fetched, crashed>>
       ELSE With(SessionUnmarshalJSON(reply.body, fetched + 1), LAMBDA d :
               IF d.err = Panic
               THEN crashed' = TRUE /\ UNCHANGED <<goroutine, fetched>>
               ELSE /\ Goes(g, UpdateSessionDecoded(goroutine[g], d))
                    /\ fetched' = fetched + 1
                    /\ UNCHANGED crashed)
    /\ UNCHANGED <<ClientFrame, Session, SessionLck, sent>>

\* c.SessionLck.Lock()
UpdateSessionLock(g) ==
    /\ Running(g, "Lock")
    /\ SessionLck = Unlocked
    /\ SessionLck' = [SessionLck EXCEPT !.writer = g]
    /\ Goes(g, [goroutine[g] EXCEPT !.pc = "store"])
    /\ UNCHANGED <<ClientFrame, Session, sent, fetched, crashed>>

\* c.Session = &session
UpdateSessionStore(g) ==
    /\ Running(g, "store")
    /\ Session' = goroutine[g].session
    /\ Goes(g, [goroutine[g] EXCEPT !.pc = "Unlock"])
    /\ UNCHANGED <<ClientFrame, SessionLck, sent, fetched, crashed>>

\* c.SessionLck.Unlock()
UpdateSessionUnlock(g) ==
    /\ Running(g, "Unlock")
    /\ SessionLck' = [SessionLck EXCEPT !.writer = 0]
    /\ Goes(g, [goroutine[g] EXCEPT !.pc = "return"])
    /\ UNCHANGED <<ClientFrame, Session, sent, fetched, crashed>>

\* return c.Session, nil
UpdateSessionReturnSession(g) ==
    /\ Running(g, "return")
    /\ Goes(g, UpdateSessionReturn(goroutine[g], Session, Nil))
    /\ UNCHANGED <<ClientFrame, Session, SessionLck, sent, fetched, crashed>>

\* lazyInitSession: c.SessionLck.RLock(); defer c.SessionLck.RUnlock()
LazyInitSessionRLock(g) ==
    /\ Running(g, "RLock")
    /\ RLock(g, [goroutine[g] EXCEPT !.pc = "check"])
    /\ UNCHANGED <<ClientFrame, Session, sent, fetched, crashed>>

\* if c.Session == nil
LazyInitSessionCheck(g) ==
    /\ Running(g, "check")
    /\ Goes(g, [goroutine[g] EXCEPT !.pc = IF Session = NoSession
                                            THEN "RUnlock" ELSE "copy"])
    /\ UNCHANGED <<ClientFrame, Session, SessionLck, sent, fetched, crashed>>

\* c.SessionLck.RUnlock() before the call of UpdateSession
LazyInitSessionRUnlock(g) ==
    /\ Running(g, "RUnlock")
    /\ RUnlock(g, [goroutine[g] EXCEPT !.pc = "Do"])
    /\ UNCHANGED <<ClientFrame, Session, sent, fetched>>

\* c.SessionLck.RLock() after UpdateSession returned no error
LazyInitSessionRLockAgain(g) ==
    /\ Running(g, "RLock2")
    /\ RLock(g, [goroutine[g] EXCEPT !.pc = "copy"])
    /\ UNCHANGED <<ClientFrame, Session, sent, fetched, crashed>>

\* return *c.Session, nil: the copy is made, the deferred call is pending
LazyInitSessionCopy(g) ==
    /\ Running(g, "copy")
    /\ IF Session = NoSession
       THEN crashed' = TRUE /\ UNCHANGED goroutine
       ELSE /\ Goes(g, [goroutine[g] EXCEPT !.snapshot = Session, !.pc = "deferred"])
            /\ UNCHANGED crashed
    /\ UNCHANGED <<ClientFrame, Session, SessionLck, sent, fetched>>

\* the deferred c.SessionLck.RUnlock() and the return to RawSend:
\* if err != nil { return nil, err }
LazyInitSessionDeferred(g) ==
    /\ Running(g, "deferred")
    /\ RUnlock(g, [goroutine[g] EXCEPT !.pc = IF goroutine[g].err = "pending"
                                              THEN "limit" ELSE "done"])
    /\ UNCHANGED <<ClientFrame, Session, sent, fetched>>

\* the test of RawSend letting one call more than the limit through
RawSendExceeds_OneMore(n, limit) == n > limit + 1

\* jmap.UnsignedInt(len(r.Calls)) > session.CoreCapability.MaxCallsInRequest
RawSendExceeds(n, limit) == n > limit

\* RawSend: the test of the number of calls against the limit
RawSendLimit(g) ==
    /\ Running(g, "limit")
    /\ Goes(g, IF RawSendExceeds(goroutine[g].calls,
                                 goroutine[g].snapshot.MaxCallsInRequest)
               THEN [goroutine[g] EXCEPT !.pc = "done", !.err = ErrLimit]
               ELSE [goroutine[g] EXCEPT !.pc = "post"])
    /\ UNCHANGED <<ClientFrame, Session, SessionLck, sent, fetched, crashed>>

\* RawSend: the POST of the request to session.APIURL, and the return of
\* the response or of the error e
RawSendPost(g, e) ==
    /\ Running(g, "post")
    /\ sent' = Append(sent, [g |-> g, calls |-> goroutine[g].calls,
                             limit |-> goroutine[g].snapshot.MaxCallsInRequest])
    /\ Goes(g, [goroutine[g] EXCEPT !.pc = "done", !.err = e])
    /\ UNCHANGED <<ClientFrame, Session, SessionLck, fetched, crashed>>

NextClient ==
    \/ \E g \in 1..Goroutines : \E reply \in SessionReplies : UpdateSessionDo(g, reply)
    \/ \E g \in 1..Goroutines : UpdateSessionLock(g)
    \/ \E g \in 1..Goroutines : UpdateSessionStore(g)
    \/ \E g \in 1..Goroutines : UpdateSessionUnlock(g)
    \/ \E g \in 1..Goroutines : UpdateSessionReturnSession(g)
    \/ \E g \in 1..Goroutines : LazyInitSessionRLock(g)
    \/ \E g \in 1..Goroutines : LazyInitSessionCheck(g)
    \/ \E g \in 1..Goroutines : LazyInitSessionRUnlock(g)
    \/ \E g \in 1..Goroutines : LazyInitSessionRLockAgain(g)
    \/ \E g \in 1..Goroutines : LazyInitSessionCopy(g)
    \/ \E g \in 1..Goroutines : LazyInitSessionDeferred(g)
    \/ \E g \in 1..Goroutines : RawSendLimit(g)
    \/ \E g \in 1..Goroutines : \E e \in {Nil, ErrDo} : RawSendPost(g, e)

SpecClient == InitClient /\ [][NextClient]_vars

-----------------------------------------------------------------------------
(* Properties of the client *)

\* the goroutine g is inside UpdateSession, called by itself or by
\* lazyInitSession
InUpdateSession(g) ==
    goroutine[g].pc \in {"Do", "Lock", "store", "Unlock", "return"}

\* the population of the cache by the goroutine g has failed in this step
PopulationFailed(g) ==
    /\ goroutine[g].pc = "Do"
    /\ goroutine'[g].pc \in {"done", "deferred"}

\* C26: the cached Session is written only while the write lock is held and
\* only with a completely decoded Session; a reader holding the read lock
\* sees no session or a complete one, and so is every copy a reader took; a
\* failed population leaves the cache unchanged; once populated the cache
\* never becomes empty again.  (That several callers may each populate the
\* cache is shown by the witness.)
C26_CacheCompleteOrEmpty ==
    [][/\ Session' # Session =>
            \E g \in 1..Goroutines :
                /\ SessionLck.writer = g /\ SessionLck.readers = 0
                /\ goroutine[g].pc = "store"
                /\ Session' = goroutine[g].session
       /\ Session' = NoSession \/ Session'.complete
       /\ \A g \in 1..Goroutines :
             /\ goroutine'[g].snapshot = NoSession \/ goroutine'[g].snapshot.complete
             /\ PopulationFailed(g) => Session' = Session
       /\ Session # NoSession => Session' # NoSession]_vars

\* two goroutines found the cache empty and each populated it: the second
\* session fetched is cached, and both RawSend calls went on with a complete
\* session
C26_Witness ==
    /\ goroutine # <<>> /\ fetched = 2 /\ Session.id = 2 /\ Session.complete
    /\ \A g \in 1..Goroutines :
          /\ goroutine[g].fn = "RawSend" /\ goroutine[g].pc = "limit"
          /\ goroutine[g].snapshot.complete

\* C27: on every path through lazyInitSession each acquisition of the read
\* lock is released exactly once: the function releases a read lock only
\* when it holds one, holds none while UpdateSession runs and takes the
\* write lock, and has returned holding none.
C27_ReadLockBalanced ==
    goroutine # <<>> =>
        \A g \in 1..Goroutines :
            /\ goroutine[g].held \in {0, 1}
            /\ goroutine[g].pc \in {"RUnlock", "deferred"} => goroutine[g].held = 1
            /\ InUpdateSession(g) => goroutine[g].held = 0
            /\ goroutine[g].pc \in {"limit", "post", "done"} => goroutine[g].held = 0

\* the call of RawSend by the goroutine g has got past the test of the limit
PastLimit(g) ==
    \/ goroutine[g].pc = "post"
    \/ \E i \in 1..Len(sent) : sent[i].g = g

\* C29: RawSend never transmits a request with more calls than the
\* MaxCallsInRequest of the session snapshot it obtained: such a request is
\* refused with the limit error before any API request is issued, a request
\* with at most that many calls passes the test, and the session has been
\* initialised when the test is made.
C29_LimitBeforeSend ==
    goroutine # <<>> =>
        /\ \A i \in 1..Len(sent) : sent[i].calls <= sent[i].limit
        /\ \A g \in 1..Goroutines :
              With(goroutine[g], LAMBDA gr :
                  /\ (gr.pc = "limit" \/ PastLimit(g) \/ gr.err = ErrLimit) =>
                        /\ gr.snapshot.complete
                        /\ Session # NoSession
                  /\ gr.err = ErrLimit =>
                        /\ gr.pc = "done"
                        /\ gr.calls > gr.snapshot.MaxCallsInRequest
                        /\ ~PastLimit(g)
                  /\ PastLimit(g) =>
                        /\ gr.calls <= gr.snapshot.MaxCallsInRequest
                        /\ gr.err # ErrLimit
                  /\ (gr.fn = "RawSend" /\ gr.pc = "done" /\ gr.err \in {Nil, ErrDo}
                        /\ gr.snapshot # NoSession) => PastLimit(g))

\* a request of two calls was refused under a snapshot whose limit is 1,
\* nothing having been transmitted, while the cache holds a newer session
\* whose limit is 2
C29_Witness ==
    /\ goroutine # <<>> /\ sent = <<>>
    /\ Session.MaxCallsInRequest = 2
    /\ \E g \in 1..Goroutines :
          /\ goroutine[g].fn = "RawSend" /\ goroutine[g].pc = "done"
          /\ goroutine[g].err = ErrLimit /\ goroutine[g].calls = 2
          /\ goroutine[g].snapshot.MaxCallsInRequest = 1

\* C30: a successful UpdateSession returns the Session that this very call
\* fetched and stored, whatever other UpdateSession calls do meanwhile, and
\* it reads or writes c.Session only while it holds the session lock.
C30_ReturnsOwnSession ==
    goroutine # <<>> =>
        \A g \in 1..Goroutines :
            /\ (goroutine[g].fn = "UpdateSession" /\ goroutine[g].pc = "done"
                  /\ goroutine[g].err = Nil) =>
                  goroutine[g].ret = goroutine[g].session
            /\ goroutine[g].pc \in {"store", "return"} => SessionLck.writer = g

====
